---- MODULE Spec2Model ----
(***************************************************************************)
(* Triangle-triangle intersection kernel of Thea (Triangle3.cpp,           *)
(* namespace Triangle3Internal).                                           *)
(*                                                                         *)
(* Number representation.  A vertex coordinate is an integer count of      *)
(* lattice steps; one step is 1/scale of a unit of length, with scale a    *)
(* power of two, so every input is an exact binary floating-point number.  *)
(* With such inputs every intermediate of the kernel up to the divisions   *)
(* is an exact multiple of a power of the step and is carried here as its  *)
(* integer multiple: coordinates and interval scalars in steps, normals    *)
(* in steps^2, signed plane distances in steps^3.  All comparisons of the  *)
(* code are homogeneous in the step except the comparison against EPSILON, *)
(* which is rescaled explicitly (BelowEpsilon).  Quotients are carried as  *)
(* exact fractions <<numerator, denominator>> (denominator >= 0, 0 only    *)
(* after a division by zero: n/0 is +inf, -inf or NaN as in IEEE 754).     *)
(* Rounding of the quotients is not modelled.                              *)
(***************************************************************************)
EXTENDS Integers, Sequences, FiniteSets, TLC

VARIABLES
    scale,      \* lattice steps per unit of length (input scaling); for the ray
                \* function the binary logarithm of that number
    V, U,       \* the two input triangles, each <<P0, P1, P2>>, P = <<x, y, z>>
    pc,         \* "ready", or the name of the kernel function that has returned
    ret,        \* int return value of that function
    coplanar,   \* caller's int behind the `int * coplanar` argument
    isectpt1,   \* caller's Real[3] behind `isectpt1`
    isectpt2,   \* caller's Real[3] behind `isectpt2`
    divzero,    \* TRUE when the call evaluated a quotient with denominator 0
    path,       \* the return statement the call left through: "reject_u" and
                \* "reject_v" (same-side tests), "coplanar" (through
                \* coplanar_tri_tri), "interval" (after the interval test)
    point,      \* the query point of the closest-point and containment calls
    axis,       \* the primary_axis argument of isPointInsideTriangle
    ray,        \* << origin, direction >> of the Ray3 argument
    edge,       \* the segment arguments of closestPointOnLineSegment
    out,        \* what the point, containment and ray functions returned
    th,         \* the calls in progress on concurrent threads
    values,     \* SortedArray::values, the elements of the sorted array
    query,      \* the argument of the last SortedArray operation
    position,   \* the intx that operation returned
    fault,      \* TRUE when an operation went outside the bounds of `values`
    mesh        \* the index arrays of a DisplayMesh

\* the variables of the point, containment and ray functions
others == << point, axis, ray, edge, out, th >>

\* the variables of the SortedArray and the DisplayMesh
containers == << values, query, position, fault, mesh >>

vars == << scale, V, U, pc, ret, coplanar, isectpt1, isectpt2, divzero, path,
           point, axis, ray, edge, out, th, values, query, position, fault, mesh >>

----------------------------------------------------------------------------
(* Macros of Triangle3.cpp, lines 25-59.  C index k is TLA+ index k + 1.   *)

FABS(x) == IF x < 0 THEN -x ELSE x

EPSILON_NUM == 1
EPSILON_DEN == 1000000

\* fabs(d) < EPSILON for a plane distance d carried in steps^3
BelowEpsilon(d) == FABS(d) * EPSILON_DEN < EPSILON_NUM * scale * scale * scale

CROSS(v1, v2) ==
    << v1[2] * v2[3] - v1[3] * v2[2],
       v1[3] * v2[1] - v1[1] * v2[3],
       v1[1] * v2[2] - v1[2] * v2[1] >>

DOT(v1, v2) == v1[1] * v2[1] + v1[2] * v2[2] + v1[3] * v2[3]

SUB(v1, v2) == << v1[1] - v2[1], v1[2] - v2[2], v1[3] - v2[3] >>

----------------------------------------------------------------------------
(* Exact fractions standing for the Real results of divisions.             *)

RECURSIVE GCD(_, _)
GCD(a, b) == IF b = 0 THEN a ELSE GCD(b, a % b)

\* n/d in lowest terms with d >= 0; n/0 keeps only the sign of n
Frac(n, d) ==
    IF d = 0 THEN << (IF n > 0 THEN 1 ELSE IF n < 0 THEN -1 ELSE 0), 0 >>
    ELSE LET g == GCD(FABS(n), FABS(d))
             s == IF d < 0 THEN -1 ELSE 1
         IN  << s * (n \div g), s * (d \div g) >>

FromInt(k) == << k, 1 >>

IsNaN(a) == a[1] = 0 /\ a[2] = 0

\* a < b on Real values (false when either is NaN)
Less(a, b) ==
    IF IsNaN(a) \/ IsNaN(b) THEN FALSE
    ELSE IF a[2] = 0 /\ b[2] = 0 THEN a[1] < 0 /\ b[1] > 0
    ELSE a[1] * b[2] < b[1] * a[2]

\* k + a for an integer k
AddInt(k, a) == Frac(k * a[2] + a[1], a[2])

\* k * a for an integer k
MulInt(k, a) == Frac(k * a[1], a[2])

----------------------------------------------------------------------------
(* coplanar_tri_tri and its macros, lines 99-206.                          *)

\* a variant with strict comparisons: edges meeting in an end point are missed
EDGE_EDGE_TEST_strict(Ax, Ay, i0, i1, V0, U0, U1) ==
    LET Bx == U0[i0] - U1[i0]
        By == U0[i1] - U1[i1]
        Cx == V0[i0] - U0[i0]
        Cy == V0[i1] - U0[i1]
        f  == Ay * Bx - Ax * By
        d  == By * Cx - Bx * Cy
        e  == Ax * Cy - Ay * Cx
    IN  /\ (f > 0 /\ d > 0 /\ d < f) \/ (f < 0 /\ d < 0 /\ d > f)
        /\ IF f > 0 THEN e > 0 /\ e < f
                    ELSE e < 0 /\ e > f

\* EDGE_EDGE_TEST: TRUE when the macro executes `return 1`
EDGE_EDGE_TEST(Ax, Ay, i0, i1, V0, U0, U1) ==
    LET Bx == U0[i0] - U1[i0]
        By == U0[i1] - U1[i1]
        Cx == V0[i0] - U0[i0]
        Cy == V0[i1] - U0[i1]
        f  == Ay * Bx - Ax * By
        d  == By * Cx - Bx * Cy
        e  == Ax * Cy - Ay * Cx
    IN  /\ (f > 0 /\ d >= 0 /\ d <= f) \/ (f < 0 /\ d <= 0 /\ d >= f)
        /\ IF f > 0 THEN e >= 0 /\ e <= f
                    ELSE e <= 0 /\ e >= f

EDGE_AGAINST_TRI_EDGES(i0, i1, V0, V1, U0, U1, U2) ==
    LET Ax == V1[i0] - V0[i0]
        Ay == V1[i1] - V0[i1]
    IN  \/ EDGE_EDGE_TEST(Ax, Ay, i0, i1, V0, U0, U1)
        \/ EDGE_EDGE_TEST(Ax, Ay, i0, i1, V0, U1, U2)
        \/ EDGE_EDGE_TEST(Ax, Ay, i0, i1, V0, U2, U0)

\* POINT_IN_TRI: TRUE when the macro executes `return 1`
POINT_IN_TRI(i0, i1, V0, U0, U1, U2) ==
    LET a0 == U1[i1] - U0[i1]
        b0 == -(U1[i0] - U0[i0])
        c0 == -a0 * U0[i0] - b0 * U0[i1]
        d0 == a0 * V0[i0] + b0 * V0[i1] + c0
        a1 == U2[i1] - U1[i1]
        b1 == -(U2[i0] - U1[i0])
        c1 == -a1 * U1[i0] - b1 * U1[i1]
        d1 == a1 * V0[i0] + b1 * V0[i1] + c1
        a2 == U0[i1] - U2[i1]
        b2 == -(U0[i0] - U2[i0])
        c2 == -a2 * U2[i0] - b2 * U2[i1]
        d2 == a2 * V0[i0] + b2 * V0[i1] + c2
    IN  d0 * d1 > 0 /\ d0 * d2 > 0

\* the projection axes <<i0, i1>> chosen from the normal, lines 167-196
ProjectionAxes(N) ==
    LET A == << FABS(N[1]), FABS(N[2]), FABS(N[3]) >>
    IN  IF A[1] > A[2]
        THEN IF A[1] > A[3] THEN << 2, 3 >> ELSE << 1, 2 >>
        ELSE IF A[3] > A[2] THEN << 1, 2 >> ELSE << 1, 3 >>

\* a variant without the last test (is U0 inside triangle V?)
coplanar_tri_tri_one_sided(N, V0, V1, V2, U0, U1, U2) ==
    LET ax == ProjectionAxes(N)
        i0 == ax[1]
        i1 == ax[2]
    IN  IF \/ EDGE_AGAINST_TRI_EDGES(i0, i1, V0, V1, U0, U1, U2)
           \/ EDGE_AGAINST_TRI_EDGES(i0, i1, V1, V2, U0, U1, U2)
           \/ EDGE_AGAINST_TRI_EDGES(i0, i1, V2, V0, U0, U1, U2)
           \/ POINT_IN_TRI(i0, i1, V0, U0, U1, U2)
        THEN 1 ELSE 0

coplanar_tri_tri(N, V0, V1, V2, U0, U1, U2) ==
    LET ax == ProjectionAxes(N)
        i0 == ax[1]
        i1 == ax[2]
    IN  IF \/ EDGE_AGAINST_TRI_EDGES(i0, i1, V0, V1, U0, U1, U2)
           \/ EDGE_AGAINST_TRI_EDGES(i0, i1, V1, V2, U0, U1, U2)
           \/ EDGE_AGAINST_TRI_EDGES(i0, i1, V2, V0, U0, U1, U2)
           \/ POINT_IN_TRI(i0, i1, V0, U0, U1, U2)
           \/ POINT_IN_TRI(i0, i1, U0, V0, V1, V2)
        THEN 1 ELSE 0

----------------------------------------------------------------------------
(* tri_tri_intersect and its macros, lines 51-95 and 209-302.              *)

\* SORT: the pair sorted so that a <= b (swapped only when a > b)
SORT(a, b) == IF Less(b, a) THEN << b, a >> ELSE << a, b >>

\* ISECT: the two interval scalars; dz tells whether a denominator was 0
ISECT(VV0, VV1, VV2, D0, D1, D2) ==
    [ isect0 |-> AddInt(VV0, Frac((VV1 - VV0) * D0, D0 - D1)),
      isect1 |-> AddInt(VV0, Frac((VV2 - VV0) * D0, D0 - D2)),
      dz     |-> (D0 - D1 = 0) \/ (D0 - D2 = 0) ]

\* COMPUTE_INTERVALS: cop = TRUE stands for the macro's
\* `return coplanar_tri_tri(N1,V0,V1,V2,U0,U1,U2)`
Coplanar == [ cop |-> TRUE, isect0 |-> << 0, 1 >>, isect1 |-> << 0, 1 >>, dz |-> FALSE ]

NotCoplanar(r) == [ cop |-> FALSE, isect0 |-> r.isect0, isect1 |-> r.isect1, dz |-> r.dz ]

\* a variant that keeps the vertex order V0, V1, V2 whatever the signs are
COMPUTE_INTERVALS_unordered(VV0, VV1, VV2, D0, D1, D2, D0D1, D0D2) ==
    IF D0 # 0 \/ D1 # 0 \/ D2 # 0 THEN NotCoplanar(ISECT(VV0, VV1, VV2, D0, D1, D2))
    ELSE Coplanar

COMPUTE_INTERVALS(VV0, VV1, VV2, D0, D1, D2, D0D1, D0D2) ==
    IF D0D1 > 0 THEN NotCoplanar(ISECT(VV2, VV0, VV1, D2, D0, D1))
    ELSE IF D0D2 > 0 THEN NotCoplanar(ISECT(VV1, VV0, VV2, D1, D0, D2))
    ELSE IF D1 * D2 > 0 \/ D0 # 0 THEN NotCoplanar(ISECT(VV0, VV1, VV2, D0, D1, D2))
    ELSE IF D1 # 0 THEN NotCoplanar(ISECT(VV1, VV0, VV2, D1, D0, D2))
    ELSE IF D2 # 0 THEN NotCoplanar(ISECT(VV2, VV0, VV1, D2, D0, D1))
    ELSE Coplanar

\* `if (fabs(d) < EPSILON) d = 0;`
EpsilonTest(d) == IF BelowEpsilon(d) THEN 0 ELSE d

\* Plane of triangle (A0,A1,A2) and the signed distances of B0,B1,B2 to it
\* after the coplanarity robustness check: lines 223-243 (and 249-268 with
\* the triangles exchanged).
PlaneDistances(A0, A1, A2, B0, B1, B2) ==
    LET E1 == SUB(A1, A0)
        E2 == SUB(A2, A0)
        N  == CROSS(E1, E2)
        d  == -DOT(N, A0)
    IN  [ N  |-> N,
          d0 |-> EpsilonTest(DOT(N, B0) + d),
          d1 |-> EpsilonTest(DOT(N, B1) + d),
          d2 |-> EpsilonTest(DOT(N, B2) + d) ]

\* index of the largest component of D = N1 x N2, lines 274-283
LargestComponent(D) ==
    LET max0 == FABS(D[1])
        b    == FABS(D[2])
        c    == FABS(D[3])
        max1 == IF b > max0 THEN b ELSE max0
        idx1 == IF b > max0 THEN 2 ELSE 1
    IN  IF c > max1 THEN 3 ELSE idx1

\* a variant that takes intervals meeting in one point as disjoint
IntervalOverlap_open(isect1, isect2) ==
    IF ~Less(isect2[1], isect1[2]) \/ ~Less(isect1[1], isect2[2]) THEN 0 ELSE 1

\* the final interval test, lines 299-301: 0 when the sorted intervals are
\* disjoint, 1 otherwise
IntervalOverlap(isect1, isect2) ==
    IF Less(isect1[2], isect2[1]) \/ Less(isect2[2], isect1[1]) THEN 0 ELSE 1

\* a variant that rejects only on the positive side of the plane
SameSide_positive(p) == p.d0 * p.d1 > 0 /\ p.d0 * p.d2 > 0 /\ p.d0 > 0

\* all three vertices strictly on one side of the other triangle's plane:
\* `if (du0du1 > 0 && du0du2 > 0)`, lines 242-246 and 267-271; p holds the
\* distances after the epsilon test
SameSide(p) == p.d0 * p.d1 > 0 /\ p.d0 * p.d2 > 0

\* a variant that takes coplanar triangles for intersecting without testing
tri_tri_intersect_overlap_untested(N1, V0, V1, V2, U0, U1, U2, c1, c2) ==
    IF c1.cop \/ c2.cop
    THEN [ ret |-> 1, path |-> "coplanar", dz |-> FALSE ]
    ELSE [ ret |-> IntervalOverlap(SORT(c1.isect0, c1.isect1),
                                   SORT(c2.isect0, c2.isect1)),
           path |-> "interval", dz |-> c1.dz \/ c2.dz ]

\* lines 292-301: c1 and c2 are what the two COMPUTE_INTERVALS produced
tri_tri_intersect_overlap(N1, V0, V1, V2, U0, U1, U2, c1, c2) ==
    IF c1.cop
    THEN [ ret |-> coplanar_tri_tri(N1, V0, V1, V2, U0, U1, U2),
           path |-> "coplanar", dz |-> FALSE ]
    ELSE IF c2.cop
    THEN [ ret |-> coplanar_tri_tri(N1, V0, V1, V2, U0, U1, U2),
           path |-> "coplanar", dz |-> c1.dz ]
    ELSE [ ret |-> IntervalOverlap(SORT(c1.isect0, c1.isect1),
                                   SORT(c2.isect0, c2.isect1)),
           path |-> "interval", dz |-> c1.dz \/ c2.dz ]

\* lines 285-295: the projections on the axis `index` and their intervals;
\* p1 holds N1 and du0..du2, p2 holds N2 and dv0..dv2
tri_tri_intersect_intervals(V0, V1, V2, U0, U1, U2, p1, p2, index) ==
    tri_tri_intersect_overlap(p1.N, V0, V1, V2, U0, U1, U2,
        COMPUTE_INTERVALS(V0[index], V1[index], V2[index],
                          p2.d0, p2.d1, p2.d2, p2.d0 * p2.d1, p2.d0 * p2.d2),
        COMPUTE_INTERVALS(U0[index], U1[index], U2[index],
                          p1.d0, p1.d1, p1.d2, p1.d0 * p1.d1, p1.d0 * p1.d2))

\* lines 267-283: the second rejection and the direction of the line
tri_tri_intersect_line(V0, V1, V2, U0, U1, U2, p1, p2) ==
    IF SameSide(p2)
    THEN [ ret |-> 0, path |-> "reject_v", dz |-> FALSE ]
    ELSE tri_tri_intersect_intervals(V0, V1, V2, U0, U1, U2, p1, p2,
                                     LargestComponent(CROSS(p1.N, p2.N)))

\* lines 242-265: the first rejection and the plane of triangle U
tri_tri_intersect_planes(V0, V1, V2, U0, U1, U2, p1) ==
    IF SameSide(p1)
    THEN [ ret |-> 0, path |-> "reject_u", dz |-> FALSE ]
    ELSE tri_tri_intersect_line(V0, V1, V2, U0, U1, U2, p1,
                                PlaneDistances(U0, U1, U2, V0, V1, V2))

tri_tri_intersect(V0, V1, V2, U0, U1, U2) ==
    tri_tri_intersect_planes(V0, V1, V2, U0, U1, U2,
                             PlaneDistances(V0, V1, V2, U0, U1, U2))

----------------------------------------------------------------------------
(* NoDivTriTriIsect and NEWCOMPUTE_INTERVALS, lines 305-445.               *)

\* a variant with the two differences X0 and X1 exchanged
NewIntervals_swapped(A, B, C, X0, X1) ==
    [ cop |-> FALSE, A |-> A, B |-> B, C |-> C, X0 |-> X1, X1 |-> X0 ]

\* the assignments of one branch of NEWCOMPUTE_INTERVALS
NewIntervals(A, B, C, X0, X1) ==
    [ cop |-> FALSE, A |-> A, B |-> B, C |-> C, X0 |-> X0, X1 |-> X1 ]

NEWCOMPUTE_INTERVALS(VV0, VV1, VV2, D0, D1, D2, D0D1, D0D2) ==
    IF D0D1 > 0
    THEN NewIntervals(VV2, (VV0 - VV2) * D2, (VV1 - VV2) * D2, D2 - D0, D2 - D1)
    ELSE IF D0D2 > 0
    THEN NewIntervals(VV1, (VV0 - VV1) * D1, (VV2 - VV1) * D1, D1 - D0, D1 - D2)
    ELSE IF D1 * D2 > 0 \/ D0 # 0
    THEN NewIntervals(VV0, (VV1 - VV0) * D0, (VV2 - VV0) * D0, D0 - D1, D0 - D2)
    ELSE IF D1 # 0
    THEN NewIntervals(VV1, (VV0 - VV1) * D1, (VV2 - VV1) * D1, D1 - D0, D1 - D2)
    ELSE IF D2 # 0
    THEN NewIntervals(VV2, (VV0 - VV2) * D2, (VV1 - VV2) * D2, D2 - D0, D2 - D1)
    ELSE [ cop |-> TRUE, A |-> 0, B |-> 0, C |-> 0, X0 |-> 0, X1 |-> 0 ]

\* lines 426-444: n1 and n2 are what the two NEWCOMPUTE_INTERVALS produced
NoDivTriTriIsect_overlap(N1, V0, V1, V2, U0, U1, U2, n1, n2) ==
    IF n1.cop \/ n2.cop
    THEN [ ret |-> coplanar_tri_tri(N1, V0, V1, V2, U0, U1, U2),
           path |-> "coplanar" ]
    ELSE
    LET xx == n1.X0 * n1.X1
        yy == n2.X0 * n2.X1
        xxyy == n1.X0 * n1.X1 * n2.X0 * n2.X1
        isect1 == SORT(FromInt(n1.A * xxyy + n1.B * n1.X1 * yy),
                       FromInt(n1.A * xxyy + n1.C * n1.X0 * yy))
        isect2 == SORT(FromInt(n2.A * xxyy + n2.B * xx * n2.X1),
                       FromInt(n2.A * xxyy + n2.C * xx * n2.X0))
    IN  [ ret |-> IntervalOverlap(isect1, isect2), path |-> "interval" ]

\* lines 419-429: the projections on the axis `index` and their intervals
NoDivTriTriIsect_intervals(V0, V1, V2, U0, U1, U2, p1, p2, index) ==
    NoDivTriTriIsect_overlap(p1.N, V0, V1, V2, U0, U1, U2,
        NEWCOMPUTE_INTERVALS(V0[index], V1[index], V2[index],
                             p2.d0, p2.d1, p2.d2, p2.d0 * p2.d1, p2.d0 * p2.d2),
        NEWCOMPUTE_INTERVALS(U0[index], U1[index], U2[index],
                             p1.d0, p1.d1, p1.d2, p1.d0 * p1.d1, p1.d0 * p1.d2))

\* lines 401-417: the second rejection and the direction of the line
NoDivTriTriIsect_line(V0, V1, V2, U0, U1, U2, p1, p2) ==
    IF SameSide(p2)
    THEN [ ret |-> 0, path |-> "reject_v" ]
    ELSE NoDivTriTriIsect_intervals(V0, V1, V2, U0, U1, U2, p1, p2,
                                    LargestComponent(CROSS(p1.N, p2.N)))

\* lines 376-399: the first rejection and the plane of triangle U
NoDivTriTriIsect_planes(V0, V1, V2, U0, U1, U2, p1) ==
    IF SameSide(p1)
    THEN [ ret |-> 0, path |-> "reject_u" ]
    ELSE NoDivTriTriIsect_line(V0, V1, V2, U0, U1, U2, p1,
                               PlaneDistances(U0, U1, U2, V0, V1, V2))

NoDivTriTriIsect(V0, V1, V2, U0, U1, U2) ==
    NoDivTriTriIsect_planes(V0, V1, V2, U0, U1, U2,
                            PlaneDistances(V0, V1, V2, U0, U1, U2))

----------------------------------------------------------------------------
(* tri_tri_intersect_with_isectline and its helpers, lines 447-737.        *)

\* SORT2: the sorted pair and the `smallest` flag
SORT2(a, b) ==
    IF Less(b, a) THEN [ lo |-> b, hi |-> a, smallest |-> 1 ]
                  ELSE [ lo |-> a, hi |-> b, smallest |-> 0 ]

ZeroPoint == << << 0, 1 >>, << 0, 1 >>, << 0, 1 >> >>

isect2(VTX0, VTX1, VTX2, VV0, VV1, VV2, D0, D1, D2) ==
    LET tmp0 == Frac(D0, D0 - D1)
        tmp1 == Frac(D0, D0 - D2)
    IN  [ isect0 |-> AddInt(VV0, MulInt(VV1 - VV0, tmp0)),
          isectpoint0 |-> [ k \in 1..3 |-> AddInt(VTX0[k], MulInt(VTX1[k] - VTX0[k], tmp0)) ],
          isect1 |-> AddInt(VV0, MulInt(VV2 - VV0, tmp1)),
          isectpoint1 |-> [ k \in 1..3 |-> AddInt(VTX0[k], MulInt(VTX2[k] - VTX0[k], tmp1)) ],
          dz |-> (D0 - D1 = 0) \/ (D0 - D2 = 0) ]

\* ret is the function's return value (1: coplanar); in the coplanar branch
\* the outputs keep the values the caller initialised them with: {0}
IsectLineResult(rv, r) ==
    [ ret |-> rv, isect0 |-> r.isect0, isect1 |-> r.isect1,
      isectpoint0 |-> r.isectpoint0, isectpoint1 |-> r.isectpoint1, dz |-> r.dz ]

Untouched ==
    [ isect0 |-> << 0, 1 >>, isect1 |-> << 0, 1 >>,
      isectpoint0 |-> ZeroPoint, isectpoint1 |-> ZeroPoint, dz |-> FALSE ]

compute_intervals_isectline(VERT0, VERT1, VERT2, VV0, VV1, VV2, D0, D1, D2, D0D1, D0D2) ==
    IF D0D1 > 0
    THEN IsectLineResult(0, isect2(VERT2, VERT0, VERT1, VV2, VV0, VV1, D2, D0, D1))
    ELSE IF D0D2 > 0
    THEN IsectLineResult(0, isect2(VERT1, VERT0, VERT2, VV1, VV0, VV2, D1, D0, D2))
    ELSE IF D1 * D2 > 0 \/ D0 # 0
    THEN IsectLineResult(0, isect2(VERT0, VERT1, VERT2, VV0, VV1, VV2, D0, D1, D2))
    ELSE IF D1 # 0
    THEN IsectLineResult(0, isect2(VERT1, VERT0, VERT2, VV1, VV0, VV2, D1, D0, D2))
    ELSE IF D2 # 0
    THEN IsectLineResult(0, isect2(VERT2, VERT0, VERT1, VV2, VV0, VV1, D2, D0, D1))
    ELSE IsectLineResult(1, Untouched)

\* a variant that ignores the `smallest` flags
SelectEndpoints_unflagged(s1, s2, A1, A2, B1, B2) ==
    IF Less(s2.lo, s1.lo)
    THEN [ isectpt1 |-> A1,
           isectpt2 |-> IF Less(s2.hi, s1.hi) THEN B2 ELSE A2 ]
    ELSE [ isectpt1 |-> B1,
           isectpt2 |-> IF Less(s1.hi, s2.hi) THEN A2 ELSE B2 ]

\* lines 667-734: the two output points chosen from the recorded points
\* A1, A2 (triangle 1) and B1, B2 (triangle 2)
SelectEndpoints(s1, s2, A1, A2, B1, B2) ==
    IF Less(s2.lo, s1.lo)
    THEN [ isectpt1 |-> IF s1.smallest = 0 THEN A1 ELSE A2,
           isectpt2 |-> IF Less(s2.hi, s1.hi)
                        THEN (IF s2.smallest = 0 THEN B2 ELSE B1)
                        ELSE (IF s1.smallest = 0 THEN A2 ELSE A1) ]
    ELSE [ isectpt1 |-> IF s2.smallest = 0 THEN B1 ELSE B2,
           isectpt2 |-> IF Less(s1.hi, s2.hi)
                        THEN (IF s1.smallest = 0 THEN A2 ELSE A1)
                        ELSE (IF s2.smallest = 0 THEN B2 ELSE B1) ]

\* a variant of the tail below that stores the end points before it tests
\* the intervals
OverlapAndEndpoints_eager(s1, s2, A1, A2, B1, B2, pt1_in, pt2_in) ==
    LET e == SelectEndpoints(s1, s2, A1, A2, B1, B2)
    IN  IF Less(s1.hi, s2.lo) \/ Less(s2.hi, s1.lo)
        THEN [ ret |-> 0, isectpt1 |-> e.isectpt1, isectpt2 |-> e.isectpt2 ]
        ELSE [ ret |-> 1, isectpt1 |-> e.isectpt1, isectpt2 |-> e.isectpt2 ]

\* lines 663-736: return 0 with the caller's points untouched when the sorted
\* intervals are disjoint, else store the selected end points and return 1
OverlapAndEndpoints(s1, s2, A1, A2, B1, B2, pt1_in, pt2_in) ==
    IF Less(s1.hi, s2.lo) \/ Less(s2.hi, s1.lo)
    THEN [ ret |-> 0, isectpt1 |-> pt1_in, isectpt2 |-> pt2_in ]
    ELSE LET e == SelectEndpoints(s1, s2, A1, A2, B1, B2)
         IN  [ ret |-> 1, isectpt1 |-> e.isectpt1, isectpt2 |-> e.isectpt2 ]

\* The results below give what the caller's *coplanar, isectpt1, isectpt2
\* hold at the return; cop_in, pt1_in, pt2_in are what they hold at the call.
IsectLineReturn(r, c, q1, q2, exit, dz) ==
    [ ret |-> r, coplanar |-> c, isectpt1 |-> q1, isectpt2 |-> q2,
      path |-> exit, dz |-> dz ]

\* lines 660-736: both intervals are known; the return value of the second
\* compute_intervals_isectline is not looked at
tri_tri_intersect_with_isectline_endpoints(c1, c2, t) ==
    IsectLineReturn(t.ret, c1.ret, t.isectpt1, t.isectpt2, "interval",
                    c1.dz \/ c2.dz)

\* lines 652-659: *coplanar takes the first call's return value
tri_tri_intersect_with_isectline_overlap(N1, V0, V1, V2, U0, U1, U2, c1, c2, pt1_in, pt2_in) ==
    IF c1.ret # 0
    THEN IsectLineReturn(coplanar_tri_tri(N1, V0, V1, V2, U0, U1, U2), c1.ret,
                         pt1_in, pt2_in, "coplanar", FALSE)
    ELSE tri_tri_intersect_with_isectline_endpoints(c1, c2,
             OverlapAndEndpoints(SORT2(c1.isect0, c1.isect1),
                                 SORT2(c2.isect0, c2.isect1),
                                 c1.isectpoint0, c1.isectpoint1,
                                 c2.isectpoint0, c2.isectpoint1,
                                 pt1_in, pt2_in))

\* lines 644-659: the projections on the axis `index` and their intervals
tri_tri_intersect_with_isectline_intervals(V0, V1, V2, U0, U1, U2, p1, p2, index, pt1_in, pt2_in) ==
    tri_tri_intersect_with_isectline_overlap(p1.N, V0, V1, V2, U0, U1, U2,
        compute_intervals_isectline(V0, V1, V2, V0[index], V1[index], V2[index],
                                    p2.d0, p2.d1, p2.d2, p2.d0 * p2.d1, p2.d0 * p2.d2),
        compute_intervals_isectline(U0, U1, U2, U0[index], U1[index], U2[index],
                                    p1.d0, p1.d1, p1.d2, p1.d0 * p1.d1, p1.d0 * p1.d2),
        pt1_in, pt2_in)

\* lines 626-642: the second rejection and the direction of the line
tri_tri_intersect_with_isectline_line(V0, V1, V2, U0, U1, U2, p1, p2, cop_in, pt1_in, pt2_in) ==
    IF SameSide(p2)
    THEN IsectLineReturn(0, cop_in, pt1_in, pt2_in, "reject_v", FALSE)
    ELSE tri_tri_intersect_with_isectline_intervals(V0, V1, V2, U0, U1, U2, p1, p2,
             LargestComponent(CROSS(p1.N, p2.N)), pt1_in, pt2_in)

\* lines 601-624: the first rejection and the plane of triangle U
tri_tri_intersect_with_isectline_planes(V0, V1, V2, U0, U1, U2, p1, cop_in, pt1_in, pt2_in) ==
    IF SameSide(p1)
    THEN IsectLineReturn(0, cop_in, pt1_in, pt2_in, "reject_u", FALSE)
    ELSE tri_tri_intersect_with_isectline_line(V0, V1, V2, U0, U1, U2, p1,
             PlaneDistances(U0, U1, U2, V0, V1, V2), cop_in, pt1_in, pt2_in)

tri_tri_intersect_with_isectline(V0, V1, V2, U0, U1, U2, cop_in, pt1_in, pt2_in) ==
    tri_tri_intersect_with_isectline_planes(V0, V1, V2, U0, U1, U2,
        PlaneDistances(V0, V1, V2, U0, U1, U2), cop_in, pt1_in, pt2_in)

----------------------------------------------------------------------------
(* The caller: two triangles, one call of a kernel function.               *)

\* lattice points with x + y + z <= MaxNorm
MaxNorm == 2

Points ==
    { << x, y, z >> : x \in 0 .. MaxNorm, y \in 0 .. MaxNorm, z \in 0 .. MaxNorm }
    \ { p \in (0 .. MaxNorm) \X (0 .. MaxNorm) \X (0 .. MaxNorm) :
          p[1] + p[2] + p[3] > MaxNorm }

Triangles == Points \X Points \X Points

\* scale 1: only an exactly zero distance is below EPSILON;
\* scale 128: a distance of at most 2 steps^3 = 2 / 2^21 is below EPSILON
Scales == { 1, 128 }

\* first triangles: two in the plane z = 0, a small one in the plane z = 1,
\* two tilted ones, three collinear vertices, three coincident vertices
VFamily ==
    { << << 0, 0, 0 >>, << 2, 0, 0 >>, << 0, 2, 0 >> >>,
      << << 0, 0, 0 >>, << 1, 0, 0 >>, << 0, 1, 0 >> >>,
      << << 0, 0, 1 >>, << 1, 0, 1 >>, << 0, 1, 1 >> >>,
      << << 0, 0, 1 >>, << 1, 2, 0 >>, << 2, 1, 2 >> >>,
      << << 1, 0, 0 >>, << 0, 0, 1 >>, << 0, 1, 0 >> >>,
      << << 0, 0, 0 >>, << 0, 0, 2 >>, << 0, 0, 1 >> >>,
      << << 1, 1, 0 >>, << 1, 1, 0 >>, << 1, 1, 0 >> >> }

\* a value of the output points that no call computes
Unset == << << -1, 1 >>, << -1, 1 >>, << -1, 1 >> >>

\* what the caller sees when tri_tri_intersect has returned r
Return_tri_tri_intersect(r) ==
    /\ ret' = r.ret
    /\ divzero' = r.dz
    /\ path' = r.path

Call_tri_tri_intersect ==
    /\ pc = "ready"
    /\ Return_tri_tri_intersect(tri_tri_intersect(V[1], V[2], V[3], U[1], U[2], U[3]))
    /\ pc' = "tri_tri_intersect"
    /\ UNCHANGED << scale, V, U, coplanar, isectpt1, isectpt2 >>
    /\ UNCHANGED others
    /\ UNCHANGED containers

Return_NoDivTriTriIsect(r) ==
    /\ ret' = r.ret
    /\ path' = r.path

Call_NoDivTriTriIsect ==
    /\ pc = "ready"
    /\ Return_NoDivTriTriIsect(NoDivTriTriIsect(V[1], V[2], V[3], U[1], U[2], U[3]))
    /\ pc' = "NoDivTriTriIsect"
    /\ UNCHANGED << scale, V, U, coplanar, isectpt1, isectpt2, divzero >>
    /\ UNCHANGED others
    /\ UNCHANGED containers

Return_tri_tri_intersect_with_isectline(r) ==
    /\ ret' = r.ret
    /\ coplanar' = r.coplanar
    /\ isectpt1' = r.isectpt1
    /\ isectpt2' = r.isectpt2
    /\ divzero' = r.dz
    /\ path' = r.path

Call_tri_tri_intersect_with_isectline ==
    /\ pc = "ready"
    /\ Return_tri_tri_intersect_with_isectline(
           tri_tri_intersect_with_isectline(V[1], V[2], V[3], U[1], U[2], U[3],
                                            coplanar, isectpt1, isectpt2))
    /\ pc' = "tri_tri_intersect_with_isectline"
    /\ UNCHANGED << scale, V, U >>
    /\ UNCHANGED others
    /\ UNCHANGED containers

\* no segment argument
NoEdge == [ v0 |-> << 0, 0, 0 >>, v1 |-> << 0, 0, 0 >>,
            edgeDirection |-> [ D |-> << 0, 0, 0 >>, n2 |-> 1 ], edgeLength |-> 0 ]

\* nothing returned yet
NoOut == [ pt |-> Unset, edgeIndex |-> -1, inside |-> FALSE, time |-> << -1, 1 >> ]

\* a mesh without vertices and faces
NoMesh == [ vertices |-> 0, tris |-> << >>, tri_source_face_indices |-> << >>,
            thrown |-> FALSE ]

\* no array and no mesh in use
NoContainers ==
    /\ values = << >>
    /\ query = 0
    /\ position = 0
    /\ fault = FALSE
    /\ mesh = NoMesh

\* the arguments and results of the point, containment and ray functions
\* when none of them is called
Idle ==
    /\ point = << 0, 0, 0 >>
    /\ axis = 0
    /\ ray = << << 0, 0, 0 >>, << 0, 0, 0 >> >>
    /\ edge = NoEdge
    /\ out = NoOut
    /\ th = << >>
    /\ NoContainers

\* the caller's variables before the call
Ready ==
    /\ pc = "ready"
    /\ ret = 0
    /\ isectpt1 = Unset
    /\ isectpt2 = Unset
    /\ divzero = FALSE
    /\ path = "none"
    /\ Idle

TypeOK ==
    /\ scale \in Scales
    /\ pc \in { "ready", "tri_tri_intersect", "NoDivTriTriIsect",
                "tri_tri_intersect_with_isectline", "closestPointOnLineSegment",
                "closestPointOnTrianglePerimeter",
                "closestPointOnTrianglePerimeter_overload", "isPointInsideTriangle",
                "rayTriangleIntersectionTime", "threads" }
    /\ ret \in { 0, 1 }
    /\ coplanar \in { 0, 1 }
    /\ divzero \in BOOLEAN
    /\ path \in { "none", "reject_u", "reject_v", "coplanar", "interval" }

(* The two overlap tests on a first triangle of VFamily and any second     *)
(* triangle of the lattice.                                                *)
Init ==
    /\ scale \in Scales
    /\ V \in VFamily
    /\ U \in Triangles
    /\ coplanar = 0
    /\ Ready

Next ==
    \/ Call_tri_tri_intersect
    \/ Call_NoDivTriTriIsect

Spec == Init /\ [][Next]_vars

(* The segment-reconstructing test on the same inputs, the caller's        *)
(* coplanar flag holding either value before the call.                     *)
InitIsectLine ==
    /\ scale \in Scales
    /\ V \in VFamily
    /\ U \in Triangles
    /\ coplanar \in { 0, 1 }
    /\ Ready

NextIsectLine == Call_tri_tri_intersect_with_isectline

SpecIsectLine == InitIsectLine /\ [][NextIsectLine]_vars

----------------------------------------------------------------------------
(* Coplanar pairs: an outer triangle of a plane and a second triangle with *)
(* its vertices among the lattice points around the outer one's interior,  *)
(* passed to tri_tri_intersect in either order.                            *)

MaxPlanar == 4

\* the plane's own coordinates <<a, b>> mapped into space: the planes z = 0,
\* x = 0, y = 0 and the tilted plane z = x + y
Embed(e, q) ==
    CASE e = "xy"     -> << q[1], q[2], 0 >>
      [] e = "yz"     -> << 0, q[1], q[2] >>
      [] e = "zx"     -> << q[2], 0, q[1] >>
      [] e = "tilted" -> << q[1], q[2], q[1] + q[2] >>

Embeddings == { "xy", "yz", "zx", "tilted" }

EmbedTriangle(e, T) == << Embed(e, T[1]), Embed(e, T[2]), Embed(e, T[3]) >>

\* the outer triangle in both orientations
OuterFamily ==
    { << << 0, 0 >>, << MaxPlanar, 0 >>, << 0, MaxPlanar >> >>,
      << << 0, 0 >>, << 0, MaxPlanar >>, << MaxPlanar, 0 >> >> }

InnerPoints == (1 .. MaxPlanar - 1) \X (1 .. MaxPlanar - 1)

InnerFamily == InnerPoints \X InnerPoints \X InnerPoints

InitCoplanar ==
    /\ scale \in Scales
    /\ \E e \in Embeddings, O \in OuterFamily, I \in InnerFamily :
          \/ V = EmbedTriangle(e, O) /\ U = EmbedTriangle(e, I)
          \/ V = EmbedTriangle(e, I) /\ U = EmbedTriangle(e, O)
    /\ coplanar = 0
    /\ Ready

NextCoplanar == Call_tri_tri_intersect

SpecCoplanar == InitCoplanar /\ [][NextCoplanar]_vars

----------------------------------------------------------------------------
(* Geometry the properties are stated with (not part of the kernel).       *)

Normal(T) == CROSS(SUB(T[2], T[1]), SUB(T[3], T[1]))

\* the triangle has zero area: collinear or coincident vertices
Degenerate(T) == Normal(T) = << 0, 0, 0 >>

Vertices(T) == { T[1], T[2], T[3] }

Min3(a, b, c) == IF a <= b /\ a <= c THEN a ELSE IF b <= c THEN b ELSE c

Max3(a, b, c) == IF a >= b /\ a >= c THEN a ELSE IF b >= c THEN b ELSE c

\* the axis-aligned bounding boxes are separated along some axis
BoxesDisjoint(S, T) ==
    \E k \in 1 .. 3 :
        \/ Max3(S[1][k], S[2][k], S[3][k]) < Min3(T[1][k], T[2][k], T[3][k])
        \/ Max3(T[1][k], T[2][k], T[3][k]) < Min3(S[1][k], S[2][k], S[3][k])

\* exact signed distances (times |normal|) of T's vertices to S's plane
Side(S, T, k) == DOT(Normal(S), SUB(T[k], S[1]))

\* T meets the plane of S in exactly one of its vertices, the other two
\* lying strictly on one side
TouchesPlaneInOneVertex(S, T) ==
    \E i \in 1 .. 3 :
        /\ Side(S, T, i) = 0
        /\ \A j, k \in (1 .. 3) \ { i } : Side(S, T, j) * Side(S, T, k) > 0

SamePlane(S, T) == \A k \in 1 .. 3 : Side(S, T, k) = 0

\* p, a point of T's plane, lies strictly inside T: on the inner side of
\* each of the three edge lines
StrictlyInside(T, p) ==
    /\ DOT(Normal(T), CROSS(SUB(T[2], T[1]), SUB(p, T[1]))) > 0
    /\ DOT(Normal(T), CROSS(SUB(T[3], T[2]), SUB(p, T[2]))) > 0
    /\ DOT(Normal(T), CROSS(SUB(T[1], T[3]), SUB(p, T[3]))) > 0

\* T lies strictly inside S (a triangle is the convex hull of its vertices)
StrictlyContains(S, T) == \A k \in 1 .. 3 : StrictlyInside(S, T[k])

\* an output point <<n1/d1, n2/d2, n3/d3>> scaled by d1 * d2 * d3
Denominator(p) == p[1][2] * p[2][2] * p[3][2]

Scaled(p) ==
    << p[1][1] * p[2][2] * p[3][2], p[2][1] * p[1][2] * p[3][2], p[3][1] * p[1][2] * p[2][2] >>

Times(k, v) == << k * v[1], k * v[2], k * v[3] >>

IsPoint(p) == \A k \in 1 .. 3 : p[k][2] > 0

\* the rational point p lies on the plane of T
OnPlane(T, p) ==
    DOT(Normal(T), SUB(Scaled(p), Times(Denominator(p), T[1]))) = 0

\* the rational point p of T's plane lies in T, boundary included
InsideOrOn(T, p) ==
    LET L == Denominator(p)
        P == Scaled(p)
    IN  /\ DOT(Normal(T), CROSS(SUB(T[2], T[1]), SUB(P, Times(L, T[1])))) >= 0
        /\ DOT(Normal(T), CROSS(SUB(T[3], T[2]), SUB(P, Times(L, T[2])))) >= 0
        /\ DOT(Normal(T), CROSS(SUB(T[1], T[3]), SUB(P, Times(L, T[3])))) >= 0

\* p is a point of the segment in which triangles S and T meet
OnCommonSegment(S, T, p) ==
    /\ IsPoint(p)
    /\ OnPlane(S, p) /\ OnPlane(T, p)
    /\ InsideOrOn(S, p) /\ InsideOrOn(T, p)

----------------------------------------------------------------------------
(* Properties of the overlap tests.                                        *)

\* C1 (as claimed): tri_tri_intersect(T1, T2) and tri_tri_intersect(T2, T1)
\* return the same value for every pair of triangles.
C1_Symmetric ==
    pc = "tri_tri_intersect" =>
        ret = tri_tri_intersect(U[1], U[2], U[3], V[1], V[2], V[3]).ret

C3_SharedVertex ==
    ( /\ pc = "tri_tri_intersect"
      /\ ~Degenerate(V) /\ ~Degenerate(U)
      /\ Cardinality(Vertices(V) \cap Vertices(U)) = 1 )
    => ret = 1

\* the shared vertex is the only point of each triangle in the other's plane
C3_Witness ==
    /\ pc = "tri_tri_intersect"
    /\ ~Degenerate(V) /\ ~Degenerate(U)
    /\ Cardinality(Vertices(V) \cap Vertices(U)) = 1
    /\ TouchesPlaneInOneVertex(V, U) /\ TouchesPlaneInOneVertex(U, V)
    /\ ret = 1

\* C4: two non-degenerate triangles with exactly two vertices (one edge) in
\* common are reported intersecting, coplanar or not.
C4_SharedEdge ==
    ( /\ pc = "tri_tri_intersect"
      /\ ~Degenerate(V) /\ ~Degenerate(U)
      /\ Cardinality(Vertices(V) \cap Vertices(U)) = 2 )
    => ret = 1

\* coplanar triangles on opposite sides of the common edge
C4_Witness ==
    /\ pc = "tri_tri_intersect"
    /\ ~Degenerate(V) /\ ~Degenerate(U)
    /\ Cardinality(Vertices(V) \cap Vertices(U)) = 2
    /\ SamePlane(V, U)
    /\ \E i, j \in 1 .. 3 :
          /\ V[i] \notin Vertices(U) /\ U[j] \notin Vertices(V)
          /\ LET a == CHOOSE q \in Vertices(V) \cap Vertices(U) : TRUE
                 b == CHOOSE q \in (Vertices(V) \cap Vertices(U)) \ { a } : TRUE
             IN  DOT(CROSS(SUB(b, a), SUB(V[i], a)), CROSS(SUB(b, a), SUB(U[j], a))) < 0
    /\ path = "coplanar"
    /\ ret = 1

\* C5 (as claimed): triangles whose bounding boxes do not overlap are
\* reported not intersecting.
C5_DisjointBoxes ==
    (pc = "tri_tri_intersect" /\ BoxesDisjoint(V, U)) => ret = 0

\* C6: for non-degenerate triangles of one plane, one strictly inside the
\* other, tri_tri_intersect takes the coplanar path and returns true, in
\* either argument order.
C6_Containment ==
    ( /\ pc = "tri_tri_intersect"
      /\ ~Degenerate(V) /\ ~Degenerate(U)
      /\ SamePlane(V, U)
      /\ StrictlyContains(V, U) \/ StrictlyContains(U, V) )
    => (path = "coplanar" /\ ret = 1)

\* the second argument lies strictly inside the first, in the tilted plane
C6_Witness ==
    /\ pc = "tri_tri_intersect"
    /\ ~Degenerate(V) /\ ~Degenerate(U)
    /\ SamePlane(V, U)
    /\ StrictlyContains(V, U)
    /\ V[2][3] # 0 /\ V[3][3] # 0
    /\ path = "coplanar"
    /\ ret = 1

\* C10 (as claimed): with a zero-area triangle among the two, the result is
\* "no intersection" and no quotient has denominator 0.
C10_DegenerateNoIntersection ==
    (pc = "tri_tri_intersect" /\ (Degenerate(V) \/ Degenerate(U)))
    => (ret = 0 /\ ~divzero)

----------------------------------------------------------------------------
(* Properties of tri_tri_intersect_with_isectline.                         *)

\* C7 (as claimed): when the function returns true with coplanar = false for
\* two non-degenerate triangles, isectpt1 and isectpt2 lie on both planes
\* and in both triangles, boundary included.
C7_EndpointsOnSegment ==
    ( /\ pc = "tri_tri_intersect_with_isectline"
      /\ ~Degenerate(V) /\ ~Degenerate(U)
      /\ ret = 1 /\ coplanar = 0 )
    => (OnCommonSegment(V, U, isectpt1) /\ OnCommonSegment(V, U, isectpt2))

\* C8 (as claimed): after the call, coplanar is true exactly when the
\* triangles were found coplanar, whatever it held before.
C8_CoplanarFlag ==
    pc = "tri_tri_intersect_with_isectline" =>
        (coplanar = 1 <=> path = "coplanar")

\* C9: a call that returns false or reports coplanar = true leaves isectpt1
\* and isectpt2 as the caller had them, and a call that finds the triangles
\* coplanar returns coplanar_tri_tri(N1, V0, V1, V2, U0, U1, U2).
C9_Frame ==
    pc = "tri_tri_intersect_with_isectline" =>
        /\ (ret = 0 \/ coplanar = 1) => (isectpt1 = Unset /\ isectpt2 = Unset)
        /\ path = "coplanar" =>
              ret = coplanar_tri_tri(Normal(V), V[1], V[2], V[3], U[1], U[2], U[3])

\* both intervals were computed and found disjoint
C9_Witness ==
    /\ pc = "tri_tri_intersect_with_isectline"
    /\ ~Degenerate(V) /\ ~Degenerate(U)
    /\ path = "interval"
    /\ ret = 0
    /\ isectpt1 = Unset /\ isectpt2 = Unset


----------------------------------------------------------------------------
(* closestPointOnLineSegment, lines 739-766.                               *)
(*                                                                         *)
(* A unit direction is carried as an integer vector D standing for         *)
(* D / |D|, and a length as its square, so that the comparisons on         *)
(* t = edgeDirection . (point - v0) are decided without square roots:      *)
(* with tn = D . (point - v0), t <= 0 iff tn <= 0, and t >= edgeLength iff *)
(* tn >= 0 and tn^2 >= edgeLength^2 * |D|^2.  The interpolated point       *)
(* v0 + t * edgeDirection is v0 + D * tn / |D|^2.  D = 0 stands for the    *)
(* direction 0/0 the four-argument overload computes for an edge of        *)
(* length zero: every component is NaN.                                    *)

NaNPoint == << << 0, 0 >>, << 0, 0 >>, << 0, 0 >> >>

\* the integer point v as a point of Reals
Exact(v) == << FromInt(v[1]), FromInt(v[2]), FromInt(v[3]) >>

\* a variant without the upper clamp: t >= edgeLength is interpolated too
closestPointOnLineSegment_unclamped(v0, v1, edgeDirection, edgeLength, pt) ==
    LET n2 == DOT(edgeDirection, edgeDirection)
        t  == DOT(edgeDirection, SUB(pt, v0))
    IN  IF n2 = 0 THEN NaNPoint
        ELSE IF t <= 0 THEN Exact(v0)
        ELSE [ k \in 1 .. 3 |-> Frac(v0[k] * n2 + edgeDirection[k] * t, n2) ]

closestPointOnLineSegment(v0, v1, edgeDirection, edgeLength, pt) ==
    LET n2 == DOT(edgeDirection, edgeDirection)
        t  == DOT(edgeDirection, SUB(pt, v0))
    IN  IF n2 = 0 THEN NaNPoint
        ELSE IF t <= 0 THEN Exact(v0)
        ELSE IF t * t >= edgeLength * n2 THEN Exact(v1)
        ELSE [ k \in 1 .. 3 |-> Frac(v0[k] * n2 + edgeDirection[k] * t, n2) ]

----------------------------------------------------------------------------
(* closestPointOnTrianglePerimeter, lines 768-837.                         *)

\* static const int next[] = {1, 2, 0}, as TLA+ indices
next == << 2, 3, 1 >>

\* a + b on Real values
Add(a, b) == Frac(a[1] * b[2] + b[1] * a[2], a[2] * b[2])

\* (a - k)^2 for a Real a and an integer k
SquaredOffset(a, k) == Frac((a[1] - k * a[2]) * (a[1] - k * a[2]), a[2] * a[2])

\* (r - point).squaredNorm() for a point r of Reals; NaN when r is NaN
squaredNorm(r, pt) ==
    Add(SquaredOffset(r[1], pt[1]), Add(SquaredOffset(r[2], pt[2]), SquaredOffset(r[3], pt[3])))

\* a variant of the comparisons of lines 788-813 with the inner comparison
\* of the first branch turned round
SelectEdge_inverted(d) ==
    IF Less(d[1], d[2])
    THEN IF Less(d[1], d[3]) THEN 2 ELSE 0
    ELSE IF Less(d[2], d[3]) THEN 1 ELSE 2

\* the comparisons of lines 788-813: the C index of the edge reported
SelectEdge(d) ==
    IF Less(d[1], d[2])
    THEN IF Less(d[1], d[3]) THEN 0 ELSE 2
    ELSE IF Less(d[2], d[3]) THEN 1 ELSE 2

\* one turn of the loop of lines 782-786: r[i] for the C index i
ClosestOnEdge(v, edgeDirection, edgeLength, pt, i) ==
    closestPointOnLineSegment(v[i + 1], v[next[i + 1]], edgeDirection[i + 1], edgeLength[i + 1], pt)

\* lines 788-815 for the three closest points r
closestPointOnTrianglePerimeter_select(r, pt) ==
    [ r |-> r,
      d |-> << squaredNorm(r[1], pt), squaredNorm(r[2], pt), squaredNorm(r[3], pt) >>,
      edgeIndex |-> SelectEdge(<< squaredNorm(r[1], pt), squaredNorm(r[2], pt), squaredNorm(r[3], pt) >>),
      pt |-> r[SelectEdge(<< squaredNorm(r[1], pt), squaredNorm(r[2], pt), squaredNorm(r[3], pt) >>) + 1] ]

\* the overload with edge directions and lengths supplied by the caller
closestPointOnTrianglePerimeter(v, edgeDirection, edgeLength, pt) ==
    closestPointOnTrianglePerimeter_select(
        << ClosestOnEdge(v, edgeDirection, edgeLength, pt, 0),
           ClosestOnEdge(v, edgeDirection, edgeLength, pt, 1),
           ClosestOnEdge(v, edgeDirection, edgeLength, pt, 2) >>, pt)

\* lines 825-833: the edge vectors, each standing for itself divided by its
\* norm
EdgeDirections(v0, v1, v2) == << SUB(v1, v0), SUB(v2, v1), SUB(v0, v2) >>

\* lines 826-833: the squares of the edge lengths
EdgeLengths(v0, v1, v2) ==
    << DOT(SUB(v1, v0), SUB(v1, v0)), DOT(SUB(v2, v1), SUB(v2, v1)), DOT(SUB(v0, v2), SUB(v0, v2)) >>

\* line 832 divides by an edge length that is zero
DividesByZero(v0, v1, v2) == \E i \in 1 .. 3 : EdgeLengths(v0, v1, v2)[i] = 0

\* the overload that computes the edge directions and lengths itself; it
\* returns the point only
closestPointOnTrianglePerimeter_overload(v0, v1, v2, pt) ==
    [ pt |-> closestPointOnTrianglePerimeter(<< v0, v1, v2 >>, EdgeDirections(v0, v1, v2),
                                            EdgeLengths(v0, v1, v2), pt).pt,
      dz |-> DividesByZero(v0, v1, v2) ]

----------------------------------------------------------------------------
(* isPointInsideTriangle, lines 839-886.                                   *)

\* a - b and a * b where the code computes them exactly
Sub(a, b) == Frac(a[1] * b[2] - b[1] * a[2], a[2] * b[2])

Mul(a, b) == Frac(a[1] * b[1], a[2] * b[2])

\* lines 848-854: the TLA+ indices of the two axes i and j kept
SecondaryAxes(primary_axis) ==
    IF primary_axis = 1 THEN << 3, 1 >>
    ELSE IF primary_axis = 2 THEN << 1, 2 >>
    ELSE << 2, 3 >>

\* the macro of line 859 for points of Reals d, e, f and the axes ij
THEA_TRIANGLE_AREA2(d, e, f, ij) ==
    Sub(Mul(Sub(e[ij[1]], d[ij[1]]), Sub(f[ij[2]], d[ij[2]])),
        Mul(Sub(f[ij[1]], d[ij[1]]), Sub(e[ij[2]], d[ij[2]])))

\* The barycentric coordinates are quotients by the area that are compared
\* with the exact bounds 0 and 1, so here the rounding of Real decides the
\* result and is modelled: a Real of lines 869-885 is the single-precision
\* number m * 2^e, carried as << m, e >> with m odd or zero.  The areas
\* themselves are computed exactly by the code when the vertices are lattice
\* points and p has binary fractions as coordinates.

\* bits of the significand of a single-precision number
MantissaBits == 24

RECURSIVE Pow2(_)
Pow2(k) == IF k = 0 THEN 1 ELSE 2 * Pow2(k - 1)

\* m * 2^e with the factors of two moved out of m
RECURSIVE Strip(_, _)
Strip(m, e) ==
    IF m = 0 THEN << 0, 0 >>
    ELSE IF m % 2 = 0 THEN Strip(m \div 2, e + 1)
    ELSE << m, e >>

\* the number of bits by which N >= 0 is longer than a significand
RECURSIVE ExcessBits(_)
ExcessBits(N) == IF N < Pow2(MantissaBits) THEN 0 ELSE 1 + ExcessBits(N \div 2)

\* q plus the remainder r of a division by d, rounded to nearest, ties to even
RoundHalfEven(q, r, d) == IF 2 * r > d \/ (2 * r = d /\ q % 2 = 1) THEN q + 1 ELSE q

\* N * 2^e for N >= 0, rounded to a significand of MantissaBits bits
RoundMagnitude(N, e) ==
    Strip(RoundHalfEven(N \div Pow2(ExcessBits(N)), N % Pow2(ExcessBits(N)), Pow2(ExcessBits(N))),
          e + ExcessBits(N))

Negate(a) == << -a[1], a[2] >>

\* the Real nearest to N * 2^e
RoundScaled(N, e) == IF N < 0 THEN Negate(RoundMagnitude(-N, e)) ELSE RoundMagnitude(N, e)

\* binary long division of n / d, 0 <= r < d the remainder left of q * 2^e,
\* until the quotient fills the significand or the division comes out even
RECURSIVE DivideMagnitude(_, _, _, _)
DivideMagnitude(q, r, d, e) ==
    IF r = 0 THEN Strip(q, e)
    ELSE IF q >= Pow2(MantissaBits - 1) THEN Strip(RoundHalfEven(q, r, d), e)
    ELSE DivideMagnitude(2 * q + (IF 2 * r >= d THEN 1 ELSE 0),
                         IF 2 * r >= d THEN 2 * r - d ELSE 2 * r, d, e - 1)

\* the Real nearest to n / d, d > 0
RoundReal(n, d) ==
    IF n < 0 THEN Negate(DivideMagnitude((-n) \div d, (-n) % d, d, 0))
    ELSE DivideMagnitude(n \div d, n % d, d, 0)

\* the Real a number a, computed exactly, is stored as
ToReal(a) == RoundReal(a[1], a[2])

\* 1 / area for the exact area, line 869
Reciprocal(area) == IF area[1] < 0 THEN RoundReal(-area[2], -area[1]) ELSE RoundReal(area[2], area[1])

\* a * b on Reals
MulReal(a, b) == RoundScaled(a[1] * b[1], a[2] + b[2])

\* the smaller of two exponents
MinExponent(a, b) == IF a[2] < b[2] THEN a[2] ELSE b[2]

\* a - b on Reals
SubReal(a, b) ==
    RoundScaled(a[1] * Pow2(a[2] - MinExponent(a, b)) - b[1] * Pow2(b[2] - MinExponent(a, b)),
                MinExponent(a, b))

\* b > 1 on a Real
AboveOne(b) ==
    /\ b[1] > 0
    /\ IF b[2] >= 0 THEN ~(b[1] = 1 /\ b[2] = 0)
       ELSE IF -b[2] > MantissaBits THEN FALSE
       ELSE b[1] > Pow2(-b[2])

\* b is a barycentric coordinate in range: not (b < 0 || b > 1)
InUnitInterval(b) == ~(b[1] < 0 \/ AboveOne(b))

\* line 881: b[2] = 1 - b[0] - b[1]
LastCoordinate(b0, b1) == SubReal(SubReal(<< 1, 0 >>, b0), b1)

\* lines 873-885 for the Reals inv_area and the two areas a0, a1
isPointInsideTriangle_coordinates(a0, a1, inv_area) ==
    /\ InUnitInterval(MulReal(a0, inv_area))
    /\ InUnitInterval(MulReal(a1, inv_area))
    /\ InUnitInterval(LastCoordinate(MulReal(a0, inv_area), MulReal(a1, inv_area)))

\* lines 869-885 for the points of Reals v0, v1, v2, p and a nonzero area
isPointInsideTriangle_barycentric(v0, v1, v2, ij, p, area) ==
    isPointInsideTriangle_coordinates(ToReal(THEA_TRIANGLE_AREA2(p, v1, v2, ij)),
                                      ToReal(THEA_TRIANGLE_AREA2(v0, p, v2, ij)),
                                      Reciprocal(area))

\* a variant that compares v0 and p in the two kept axes only
isPointInsideTriangle_projected(v0, v1, v2, primary_axis, p) ==
    IF THEA_TRIANGLE_AREA2(Exact(v0), Exact(v1), Exact(v2), SecondaryAxes(primary_axis))[1] = 0
    THEN /\ Exact(v0)[SecondaryAxes(primary_axis)[1]] = p[SecondaryAxes(primary_axis)[1]]
         /\ Exact(v0)[SecondaryAxes(primary_axis)[2]] = p[SecondaryAxes(primary_axis)[2]]
    ELSE isPointInsideTriangle_barycentric(Exact(v0), Exact(v1), Exact(v2), SecondaryAxes(primary_axis), p,
             THEA_TRIANGLE_AREA2(Exact(v0), Exact(v1), Exact(v2), SecondaryAxes(primary_axis)))

\* the vertices are lattice points, p is a point of Reals whose coordinates
\* are binary fractions
isPointInsideTriangle(v0, v1, v2, primary_axis, p) ==
    IF THEA_TRIANGLE_AREA2(Exact(v0), Exact(v1), Exact(v2), SecondaryAxes(primary_axis))[1] = 0
    THEN Exact(v0) = p
    ELSE isPointInsideTriangle_barycentric(Exact(v0), Exact(v1), Exact(v2), SecondaryAxes(primary_axis), p,
             THEA_TRIANGLE_AREA2(Exact(v0), Exact(v1), Exact(v2), SecondaryAxes(primary_axis)))

----------------------------------------------------------------------------
(* rayTriangleIntersectionTime, lines 888-946.                             *)
(*                                                                         *)
(* Origin, direction, vertex and edges are integer counts of lattice       *)
(* steps of 2^-scale units.  Dot(D, N), a product of three coordinates, is *)
(* then an integer multiple of 2^(-3 * scale).  With scale = 0 an integer  *)
(* is above EPS = 1e-30 exactly when it is positive.  With scale = 34 the  *)
(* multiples are of 2^-102, and 5 * 2^-102 < 1e-30 < 6 * 2^-102.  All      *)
(* other comparisons of the function are homogeneous in the step, and the  *)
(* returned quotient is a pure number.                                     *)

TinyExponent == 34

\* the largest multiple of 2^(-3 * TinyExponent) that is not above EPS
EPS_TINY == 5

\* a variant that takes every positive number to be above EPS
AboveEPS_exact(x) == x > 0

\* x > EPS for x in steps^3
AboveEPS(x) == x > (IF scale = TinyExponent THEN EPS_TINY ELSE 0)

\* lines 900-913: sign, or 0 where the function returns -1 for a parallel ray
RaySign(DdN) == IF AboveEPS(DdN) THEN 1 ELSE IF AboveEPS(-DdN) THEN -1 ELSE 0

\* a variant of lines 915-944 without the test QdN >= 0
rayTriangleIntersectionTime_signed_any_time(dir, diff, edge01, edge02, normal, sign, DdN) ==
    IF /\ sign * DOT(dir, CROSS(diff, edge02)) >= 0
       /\ sign * DOT(dir, CROSS(edge01, diff)) >= 0
       /\ sign * DOT(dir, CROSS(diff, edge02)) + sign * DOT(dir, CROSS(edge01, diff)) <= DdN
    THEN Frac(-sign * DOT(diff, normal), DdN)
    ELSE << -1, 1 >>

\* a variant of lines 915-944 without the test DdQxE2 + DdE1xQ <= DdN
rayTriangleIntersectionTime_signed_no_sum(dir, diff, edge01, edge02, normal, sign, DdN) ==
    IF /\ sign * DOT(dir, CROSS(diff, edge02)) >= 0
       /\ sign * DOT(dir, CROSS(edge01, diff)) >= 0
       /\ -sign * DOT(diff, normal) >= 0
    THEN Frac(-sign * DOT(diff, normal), DdN)
    ELSE << -1, 1 >>

\* lines 915-945 with sign 1 or -1 and DdN made positive
rayTriangleIntersectionTime_signed(dir, diff, edge01, edge02, normal, sign, DdN) ==
    IF /\ sign * DOT(dir, CROSS(diff, edge02)) >= 0
       /\ sign * DOT(dir, CROSS(edge01, diff)) >= 0
       /\ sign * DOT(dir, CROSS(diff, edge02)) + sign * DOT(dir, CROSS(edge01, diff)) <= DdN
       /\ -sign * DOT(diff, normal) >= 0
    THEN Frac(-sign * DOT(diff, normal), DdN)
    ELSE << -1, 1 >>

\* lines 900-945 for the sign found
rayTriangleIntersectionTime_parallel(dir, diff, edge01, edge02, normal, sign) ==
    IF sign = 0 THEN << -1, 1 >>
    ELSE rayTriangleIntersectionTime_signed(dir, diff, edge01, edge02, normal, sign, sign * DOT(dir, normal))

\* r is << origin, direction >>
rayTriangleIntersectionTime(r, v0, edge01, edge02) ==
    rayTriangleIntersectionTime_parallel(r[2], SUB(r[1], v0), edge01, edge02, CROSS(edge01, edge02),
                                         RaySign(DOT(r[2], CROSS(edge01, edge02))))

----------------------------------------------------------------------------
(* A caller of closestPointOnLineSegment with a segment from v0 along a    *)
(* direction, its unit direction and its length.                           *)

MaxSteps == 2
MaxQuery == 3

SegmentStarts == { << 0, 0, 0 >>, << 1, 0, 2 >> }

Directions == { << 1, 0, 0 >>, << 0, 1, 0 >>, << 1, 1, 0 >>, << 1, 2, 2 >>, << -1, 0, 1 >> }

\* the segments from a start along k steps of a direction
Segments ==
    { [ v0 |-> a, v1 |-> << a[1] + k * D[1], a[2] + k * D[2], a[3] + k * D[3] >>,
        edgeDirection |-> D, edgeLength |-> k * k * DOT(D, D) ] :
      a \in SegmentStarts, D \in Directions, k \in 0 .. MaxSteps }

QueryPoints == { << x, y, z >> : x \in -1 .. MaxQuery, y \in -1 .. MaxQuery, z \in -1 .. MaxQuery }

\* the caller's variables of the intersection tests, which take no part
Quiet ==
    /\ scale = 1
    /\ coplanar = 0
    /\ pc = "ready"
    /\ ret = 0
    /\ isectpt1 = Unset
    /\ isectpt2 = Unset
    /\ divzero = FALSE
    /\ path = "none"
    /\ th = << >>
    /\ out = NoOut
    /\ NoContainers

NoTriangle == << << 0, 0, 0 >>, << 0, 0, 0 >>, << 0, 0, 0 >> >>

Return_closestPointOnLineSegment(r) ==
    /\ out' = [ out EXCEPT !.pt = r ]
    /\ pc' = "closestPointOnLineSegment"
    /\ UNCHANGED << scale, V, U, ret, coplanar, isectpt1, isectpt2, divzero, path >>
    /\ UNCHANGED << point, axis, ray, edge, th >>
    /\ UNCHANGED containers

Call_closestPointOnLineSegment ==
    /\ pc = "ready"
    /\ Return_closestPointOnLineSegment(
           closestPointOnLineSegment(edge.v0, edge.v1, edge.edgeDirection, edge.edgeLength, point))

InitSegment ==
    /\ Quiet
    /\ V = NoTriangle
    /\ U = NoTriangle
    /\ axis = 0
    /\ ray = << << 0, 0, 0 >>, << 0, 0, 0 >> >>
    /\ edge \in Segments
    /\ point \in QueryPoints

NextSegment == Call_closestPointOnLineSegment

SpecSegment == InitSegment /\ [][NextSegment]_vars

----------------------------------------------------------------------------
(* Callers of the two overloads of closestPointOnTrianglePerimeter.  The   *)
(* caller of the first passes, for every edge, a unit vector and the       *)
(* length of the edge; for an edge of length zero any unit vector will do. *)

PerimeterVertices == { p \in Points : p[3] = 0 } \cup { << 0, 0, MaxNorm >> }

PerimeterTriangles == PerimeterVertices \X PerimeterVertices \X PerimeterVertices

PerimeterQueries ==
    Points \cup { << -1, -1, -1 >>, << 1, 1, 1 >>, << MaxNorm + 1, 0, 0 >>, << -1, MaxNorm, 0 >> }

\* unit directions of the edges of v as a caller holds them
UnitDirections(v) ==
    [ i \in 1 .. 3 |-> IF v[next[i]] = v[i] THEN << 1, 0, 0 >> ELSE SUB(v[next[i]], v[i]) ]

Return_closestPointOnTrianglePerimeter(r) ==
    /\ out' = [ out EXCEPT !.pt = r.pt, !.edgeIndex = r.edgeIndex ]
    /\ pc' = "closestPointOnTrianglePerimeter"
    /\ UNCHANGED << scale, V, U, ret, coplanar, isectpt1, isectpt2, divzero, path >>
    /\ UNCHANGED << point, axis, ray, edge, th >>
    /\ UNCHANGED containers

Call_closestPointOnTrianglePerimeter ==
    /\ pc = "ready"
    /\ Return_closestPointOnTrianglePerimeter(
           closestPointOnTrianglePerimeter(V, UnitDirections(V), EdgeLengths(V[1], V[2], V[3]), point))

Return_closestPointOnTrianglePerimeter_overload(r) ==
    /\ out' = [ out EXCEPT !.pt = r.pt ]
    /\ divzero' = r.dz
    /\ pc' = "closestPointOnTrianglePerimeter_overload"
    /\ UNCHANGED << scale, V, U, ret, coplanar, isectpt1, isectpt2, path >>
    /\ UNCHANGED << point, axis, ray, edge, th >>
    /\ UNCHANGED containers

Call_closestPointOnTrianglePerimeter_overload ==
    /\ pc = "ready"
    /\ Return_closestPointOnTrianglePerimeter_overload(
           closestPointOnTrianglePerimeter_overload(V[1], V[2], V[3], point))

InitPerimeter ==
    /\ Quiet
    /\ V \in PerimeterTriangles
    /\ U = NoTriangle
    /\ axis = 0
    /\ ray = << << 0, 0, 0 >>, << 0, 0, 0 >> >>
    /\ edge = NoEdge
    /\ point \in PerimeterQueries

NextPerimeter ==
    \/ Call_closestPointOnTrianglePerimeter
    \/ Call_closestPointOnTrianglePerimeter_overload

SpecPerimeter == InitPerimeter /\ [][NextPerimeter]_vars

----------------------------------------------------------------------------
(* A caller of isPointInsideTriangle.                                      *)

MaxInside == 3

InsideVertices ==
    { << 0, 0, 0 >>, << 0, 3, 0 >>, << 1, 0, 0 >>, << 2, 1, 0 >>, << 0, 0, 2 >>, << 1, 2, 2 >> }

InsideTriangles == InsideVertices \X InsideVertices \X InsideVertices

InsideQueries == { << x, y, z >> : x \in 0 .. MaxInside, y \in 0 .. MaxInside, z \in 0 .. 1 }

Axes == { 0, 1, 2 }

Return_isPointInsideTriangle(r) ==
    /\ out' = [ out EXCEPT !.inside = r ]
    /\ pc' = "isPointInsideTriangle"
    /\ UNCHANGED << scale, V, U, ret, coplanar, isectpt1, isectpt2, divzero, path >>
    /\ UNCHANGED << point, axis, ray, edge, th >>
    /\ UNCHANGED containers

Call_isPointInsideTriangle ==
    /\ pc = "ready"
    /\ Return_isPointInsideTriangle(isPointInsideTriangle(V[1], V[2], V[3], axis, Exact(point)))

InitInside ==
    /\ Quiet
    /\ V \in InsideTriangles
    /\ U = NoTriangle
    /\ axis \in Axes
    /\ ray = << << 0, 0, 0 >>, << 0, 0, 0 >> >>
    /\ edge = NoEdge
    /\ point \in InsideQueries

NextInside == Call_isPointInsideTriangle

SpecInside == InitInside /\ [][NextInside]_vars

----------------------------------------------------------------------------
(* A caller of rayTriangleIntersectionTime with the vertex v0 and the two  *)
(* edges v1 - v0 and v2 - v0 of a triangle.                                *)

RayExponents == { 0, TinyExponent }

RayDirections == { d \in (-1 .. 1) \X (-1 .. 1) \X (-1 .. 1) : d # << 0, 0, 0 >> }

Rays == QueryPoints \X RayDirections

\* the first triangles of the intersection tests and one whose projected
\* area is no power of two
RayTriangles == VFamily \cup { << << 0, 1, 3 >>, << 0, 1, 0 >>, << 3, 0, 3 >> >> }

Return_rayTriangleIntersectionTime(r) ==
    /\ out' = [ out EXCEPT !.time = r ]
    /\ pc' = "rayTriangleIntersectionTime"
    /\ UNCHANGED << scale, V, U, ret, coplanar, isectpt1, isectpt2, divzero, path >>
    /\ UNCHANGED << point, axis, ray, edge, th >>
    /\ UNCHANGED containers

Call_rayTriangleIntersectionTime ==
    /\ pc = "ready"
    /\ Return_rayTriangleIntersectionTime(
           rayTriangleIntersectionTime(ray, V[1], SUB(V[2], V[1]), SUB(V[3], V[1])))

InitRay ==
    /\ scale \in RayExponents
    /\ coplanar = 0
    /\ pc = "ready"
    /\ ret = 0
    /\ isectpt1 = Unset
    /\ isectpt2 = Unset
    /\ divzero = FALSE
    /\ path = "none"
    /\ th = << >>
    /\ out = NoOut
    /\ NoContainers
    /\ V \in RayTriangles
    /\ U = NoTriangle
    /\ axis = 0
    /\ edge = NoEdge
    /\ point = << 0, 0, 0 >>
    /\ ray \in Rays

NextRay == Call_rayTriangleIntersectionTime

SpecRay == InitRay /\ [][NextRay]_vars

----------------------------------------------------------------------------
(* Calls on concurrent threads.  Every thread calls one kernel function    *)
(* on one of the two triangles, or on the pair in one of its two orders,   *)
(* and runs it in steps that interleave with the steps of the other        *)
(* thread.  The triangles, the point, the ray and the axis are shared      *)
(* between the threads; the automatic variables of a call live in the      *)
(* frame of its thread, and each call has output parameters of its own.    *)
(* The only objects of static storage the functions name are               *)
(* `static const int next[]` (line 780) and `static Real const EPS`        *)
(* (line 893), which are constants here as there.                          *)

Threads == { 1, 2 }

Kernel ==
    { "tri_tri_intersect", "NoDivTriTriIsect", "tri_tri_intersect_with_isectline",
      "closestPointOnTrianglePerimeter", "isPointInsideTriangle", "rayTriangleIntersectionTime" }

\* a variant in which the automatic variables have static storage: one
\* frame for all threads
Frame_static(t) == 1

\* the stack frame the automatic variables of thread t's call live in
Frame(t) == t

\* automatic variables before they are assigned
NoFrame ==
    [ p1 |-> [ N |-> << 0, 0, 0 >>, d0 |-> 0, d1 |-> 0, d2 |-> 0 ],
      r |-> << Unset, Unset, Unset >>,
      area |-> << 0, 1 >>,
      sign |-> 0 ]

\* a caller's output parameters and return value before the call
NoResult ==
    [ ret |-> 0, coplanar |-> 0, isectpt1 |-> Unset, isectpt2 |-> Unset,
      pt |-> Unset, edgeIndex |-> -1, inside |-> FALSE, time |-> << 0, 1 >> ]

\* the triangle thread t passes first, and the one it passes second
First(t) == IF th.arg[t] = 1 THEN V ELSE U

Second(t) == IF th.arg[t] = 1 THEN U ELSE V

\* thread t is at statement k of a call of f
At(t, f, k) == th.op[t] = f /\ th.at[t] = k

\* thread t has returned
Returned(t) == th.at[t] = 4

\* the steps leave the shared arguments and the other caller's variables alone
ThreadFrameCondition ==
    /\ UNCHANGED << scale, V, U, pc, ret, coplanar, isectpt1, isectpt2, divzero, path >>
    /\ UNCHANGED << point, axis, ray, edge, out >>
    /\ UNCHANGED containers

\* lines 216-240, 350-374 and 574-599: N1, d1 and du0, du1, du2
Step_PlaneDistances(t, f, A, B) ==
    /\ At(t, f, 0)
    /\ th' = [ th EXCEPT !.frame[Frame(t)].p1 = PlaneDistances(A[1], A[2], A[3], B[1], B[2], B[3]),
                         !.at[t] = 1 ]
    /\ ThreadFrameCondition

\* lines 242-301 of tri_tri_intersect
Step_tri_tri_intersect(t, A, B) ==
    /\ At(t, "tri_tri_intersect", 1)
    /\ th' = [ th EXCEPT !.res[t].ret =
                             tri_tri_intersect_planes(A[1], A[2], A[3], B[1], B[2], B[3],
                                                      th.frame[Frame(t)].p1).ret,
                         !.at[t] = 4 ]
    /\ ThreadFrameCondition

\* lines 376-444 of NoDivTriTriIsect
Step_NoDivTriTriIsect(t, A, B) ==
    /\ At(t, "NoDivTriTriIsect", 1)
    /\ th' = [ th EXCEPT !.res[t].ret =
                             NoDivTriTriIsect_planes(A[1], A[2], A[3], B[1], B[2], B[3],
                                                     th.frame[Frame(t)].p1).ret,
                         !.at[t] = 4 ]
    /\ ThreadFrameCondition

\* what thread t's caller sees when the call has returned r
Return_isectline(t, r) ==
    /\ th' = [ th EXCEPT !.res[t].ret = r.ret, !.res[t].coplanar = r.coplanar,
                         !.res[t].isectpt1 = r.isectpt1, !.res[t].isectpt2 = r.isectpt2,
                         !.at[t] = 4 ]
    /\ ThreadFrameCondition

\* lines 601-736 of tri_tri_intersect_with_isectline
Step_tri_tri_intersect_with_isectline(t, A, B) ==
    /\ At(t, "tri_tri_intersect_with_isectline", 1)
    /\ Return_isectline(t, tri_tri_intersect_with_isectline_planes(A[1], A[2], A[3], B[1], B[2], B[3],
                               th.frame[Frame(t)].p1, th.res[t].coplanar,
                               th.res[t].isectpt1, th.res[t].isectpt2))

\* lines 782-786: one turn of the loop, r[i] for i = 0, 1, 2
Step_ClosestOnEdge(t, A) ==
    /\ th.op[t] = "closestPointOnTrianglePerimeter"
    /\ th.at[t] \in 0 .. 2
    /\ th' = [ th EXCEPT !.frame[Frame(t)].r[th.at[t] + 1] =
                             ClosestOnEdge(A, UnitDirections(A), EdgeLengths(A[1], A[2], A[3]),
                                           point, th.at[t]),
                         !.at[t] = th.at[t] + 1 ]
    /\ ThreadFrameCondition

\* what thread t's caller sees when closestPointOnTrianglePerimeter has returned r
Return_perimeter(t, r) ==
    /\ th' = [ th EXCEPT !.res[t].pt = r.pt, !.res[t].edgeIndex = r.edgeIndex, !.at[t] = 4 ]
    /\ ThreadFrameCondition

\* lines 785-815: the distances, the choice of the edge and the return
Step_closestPointOnTrianglePerimeter(t) ==
    /\ At(t, "closestPointOnTrianglePerimeter", 3)
    /\ Return_perimeter(t, closestPointOnTrianglePerimeter_select(th.frame[Frame(t)].r, point))

\* line 862: the area
Step_Area(t, A) ==
    /\ At(t, "isPointInsideTriangle", 0)
    /\ th' = [ th EXCEPT !.frame[Frame(t)].area =
                             THEA_TRIANGLE_AREA2(Exact(A[1]), Exact(A[2]), Exact(A[3]), SecondaryAxes(axis)),
                         !.at[t] = 1 ]
    /\ ThreadFrameCondition

\* lines 863-885 of isPointInsideTriangle
Step_isPointInsideTriangle(t, A) ==
    /\ At(t, "isPointInsideTriangle", 1)
    /\ th' = [ th EXCEPT !.res[t].inside =
                             IF th.frame[Frame(t)].area[1] = 0 THEN A[1] = point
                             ELSE isPointInsideTriangle_barycentric(Exact(A[1]), Exact(A[2]), Exact(A[3]),
                                      SecondaryAxes(axis), Exact(point), th.frame[Frame(t)].area),
                         !.at[t] = 4 ]
    /\ ThreadFrameCondition

\* lines 893-913: the sign of DdN
Step_RaySign(t, A) ==
    /\ At(t, "rayTriangleIntersectionTime", 0)
    /\ th' = [ th EXCEPT !.frame[Frame(t)].sign =
                             RaySign(DOT(ray[2], CROSS(SUB(A[2], A[1]), SUB(A[3], A[1])))),
                         !.at[t] = 1 ]
    /\ ThreadFrameCondition

\* lines 908-945 of rayTriangleIntersectionTime
Step_rayTriangleIntersectionTime(t, A) ==
    /\ At(t, "rayTriangleIntersectionTime", 1)
    /\ th' = [ th EXCEPT !.res[t].time =
                             rayTriangleIntersectionTime_parallel(ray[2], SUB(ray[1], A[1]),
                                 SUB(A[2], A[1]), SUB(A[3], A[1]),
                                 CROSS(SUB(A[2], A[1]), SUB(A[3], A[1])), th.frame[Frame(t)].sign),
                         !.at[t] = 4 ]
    /\ ThreadFrameCondition

ThreadTriangles ==
    { << << 0, 0, 0 >>, << 2, 0, 0 >>, << 0, 2, 0 >> >>,
      << << 0, 0, 1 >>, << 1, 2, 0 >>, << 2, 1, 2 >> >>,
      << << 1, 0, 0 >>, << 1, 0, 0 >>, << 0, 3, 0 >> >> }

ThreadPoints == { << 1, 0, 0 >>, << 0, 1, 1 >> }

ThreadRays == { << << 0, 1, 2 >>, << 0, 0, -1 >> >>, << << 1, 1, -1 >>, << 1, 0, 1 >> >> }

InitThreads ==
    /\ scale = 1
    /\ coplanar = 0
    /\ pc = "threads"
    /\ ret = 0
    /\ isectpt1 = Unset
    /\ isectpt2 = Unset
    /\ divzero = FALSE
    /\ path = "none"
    /\ out = NoOut
    /\ edge = NoEdge
    /\ NoContainers
    /\ V \in ThreadTriangles
    /\ U \in ThreadTriangles
    /\ V # U
    /\ point \in ThreadPoints
    /\ ray \in ThreadRays
    /\ axis = 2
    /\ \E f \in [ Threads -> Kernel ], a \in [ Threads -> { 1, 2 } ] :
           th = [ op |-> f, arg |-> a, at |-> [ t \in Threads |-> 0 ],
                  frame |-> [ t \in Threads |-> NoFrame ],
                  res |-> [ t \in Threads |-> NoResult ] ]

NextThreads ==
    \E t \in Threads :
        \/ Step_PlaneDistances(t, "tri_tri_intersect", First(t), Second(t))
        \/ Step_PlaneDistances(t, "NoDivTriTriIsect", First(t), Second(t))
        \/ Step_PlaneDistances(t, "tri_tri_intersect_with_isectline", First(t), Second(t))
        \/ Step_tri_tri_intersect(t, First(t), Second(t))
        \/ Step_NoDivTriTriIsect(t, First(t), Second(t))
        \/ Step_tri_tri_intersect_with_isectline(t, First(t), Second(t))
        \/ Step_ClosestOnEdge(t, First(t))
        \/ Step_closestPointOnTrianglePerimeter(t)
        \/ Step_Area(t, First(t))
        \/ Step_isPointInsideTriangle(t, First(t))
        \/ Step_RaySign(t, First(t))
        \/ Step_rayTriangleIntersectionTime(t, First(t))

SpecThreads == InitThreads /\ [][NextThreads]_vars

----------------------------------------------------------------------------
(* Geometry of points and segments the claims are stated in.               *)

\* Denominator(p) * (p - a) for a point p of Reals and an integer point a
Diff(p, a) == SUB(Scaled(p), Times(Denominator(p), a))

\* the point p of Reals lies on the segment from a to b
OnSegment(p, a, b) ==
    /\ IsPoint(p)
    /\ CROSS(Diff(p, a), SUB(b, a)) = << 0, 0, 0 >>
    /\ DOT(Diff(p, a), SUB(b, a)) >= 0
    /\ DOT(Diff(p, b), SUB(a, b)) >= 0

\* no point of the segment from a to b is nearer to q than the point p of
\* the segment: the angle at p between q and every point of the segment is
\* not acute, which it is for the whole segment when it is for both ends
NearestOnSegment(p, a, b, q) ==
    /\ DOT(Diff(p, q), Diff(p, a)) <= 0
    /\ DOT(Diff(p, q), Diff(p, b)) <= 0

\* C11: closestPointOnLineSegment returns v0 when the query point projects
\* at or before v0, v1 when it projects at or beyond v1, and otherwise the
\* projection; the result is a point of the segment and no point of the
\* segment is nearer to the query point.
C11_ClosestOnSegment ==
    pc = "closestPointOnLineSegment" =>
        LET along == DOT(SUB(point, edge.v0), SUB(edge.v1, edge.v0))
            len2  == DOT(SUB(edge.v1, edge.v0), SUB(edge.v1, edge.v0))
        IN  /\ OnSegment(out.pt, edge.v0, edge.v1)
            /\ NearestOnSegment(out.pt, edge.v0, edge.v1, point)
            /\ (len2 > 0 /\ along <= 0) => out.pt = Exact(edge.v0)
            /\ along >= len2 => out.pt = Exact(edge.v1)
            /\ (along > 0 /\ along < len2) =>
                   /\ out.pt \notin { Exact(edge.v0), Exact(edge.v1) }
                   /\ DOT(Diff(out.pt, point), SUB(edge.v1, edge.v0)) = 0

\* a query point off the line of the segment whose projection falls strictly
\* between the end points, at a point that is no lattice point
C11_Witness ==
    /\ pc = "closestPointOnLineSegment"
    /\ edge.edgeLength > 0
    /\ out.pt \notin { Exact(edge.v0), Exact(edge.v1), Exact(point) }
    /\ Denominator(out.pt) > 1

\* the square of the distance from q to the segment from a to b
SegmentDistance2(a, b, q) ==
    LET along == DOT(SUB(q, a), SUB(b, a))
        len2  == DOT(SUB(b, a), SUB(b, a))
    IN  IF along <= 0 THEN FromInt(DOT(SUB(q, a), SUB(q, a)))
        ELSE IF along >= len2 THEN FromInt(DOT(SUB(q, b), SUB(q, b)))
        ELSE Frac(DOT(SUB(q, a), SUB(q, a)) * len2 - along * along, len2)

\* the square of the distance from q to edge i (C index) of triangle T
EdgeDistance2(T, i, q) == SegmentDistance2(T[i + 1], T[next[i + 1]], q)

\* a <= b on Real values that are numbers
AtMost(a, b) == a[2] > 0 /\ b[2] > 0 /\ a[1] * b[2] <= b[1] * a[2]

\* the square of the distance from the point p of Reals to q
PointDistance2(p, q) == Frac(DOT(Diff(p, q), Diff(p, q)), Denominator(p) * Denominator(p))

\* C12: closestPointOnTrianglePerimeter returns the closest point of edge
\* edgeIndex, edge i running from v[i] to v[(i + 1) mod 3], and that point
\* is at most as far from the query point as the closest point of each of
\* the other two edges.
C12_NearestEdge ==
    pc = "closestPointOnTrianglePerimeter" =>
        /\ out.edgeIndex \in 0 .. 2
        /\ OnSegment(out.pt, V[out.edgeIndex + 1], V[((out.edgeIndex + 1) % 3) + 1])
        /\ PointDistance2(out.pt, point) = EdgeDistance2(V, out.edgeIndex, point)
        /\ \A j \in 0 .. 2 : AtMost(PointDistance2(out.pt, point), EdgeDistance2(V, j, point))

\* a triangle of three different vertices and a query point off its plane
\* that is strictly nearer to one edge than to the other two, the closest
\* point being no vertex
C12_Witness ==
    /\ pc = "closestPointOnTrianglePerimeter"
    /\ Normal(V) # << 0, 0, 0 >>
    /\ DOT(Normal(V), SUB(point, V[1])) # 0
    /\ out.pt \notin { Exact(V[1]), Exact(V[2]), Exact(V[3]) }
    /\ \A j \in 0 .. 2 : j # out.edgeIndex =>
           ~AtMost(EdgeDistance2(V, j, point), EdgeDistance2(V, out.edgeIndex, point))

\* the edges of T nearest to q
NearestEdges(T, q) ==
    { i \in 0 .. 2 : \A j \in 0 .. 2 : AtMost(EdgeDistance2(T, i, q), EdgeDistance2(T, j, q)) }

\* C13: when two or three edges are equally near to the query point,
\* closestPointOnTrianglePerimeter reports the lowest-numbered of the tied
\* nearest edges; for a query point at vertex v1 it reports edge 0.
C13_LowestTiedEdge ==
    pc = "closestPointOnTrianglePerimeter" =>
        /\ \A i \in NearestEdges(V, point) : out.edgeIndex <= i
        /\ (point = V[2] /\ V[1] # V[2] /\ V[2] # V[3]) => out.edgeIndex = 0

\* the point p of Reals lies on the perimeter of T
OnPerimeter(p, T) == \E i \in 1 .. 3 : OnSegment(p, T[i], T[next[i]])

\* C20: for a triangle with two coincident vertices the overload of
\* closestPointOnTrianglePerimeter taking (v0, v1, v2, point) divides by no
\* zero and returns a point of the perimeter of the triangle.
C20_CoincidentVertices ==
    (/\ pc = "closestPointOnTrianglePerimeter_overload"
     /\ (V[1] = V[2] \/ V[2] = V[3] \/ V[3] = V[1])) =>
        /\ ~divzero
        /\ OnPerimeter(out.pt, V)

\* twice the signed area of the triangle a, b, c of integer points dropped
\* onto the coordinate plane across axis k (C index)
Area2D(a, b, c, k) == CROSS(SUB(b, a), SUB(c, a))[k + 1]

\* C14: when the triangle's projection onto the plane across primary_axis
\* has zero area, isPointInsideTriangle returns true exactly when p equals
\* v0 in all three coordinates; with v0 = v1 = v2 = P it returns true for
\* p = P and false for every other point.
C14_ZeroAreaProjection ==
    (pc = "isPointInsideTriangle" /\ Area2D(V[1], V[2], V[3], axis) = 0) =>
        out.inside = (point = V[1])

\* a triangle of nonzero area seen edge-on along the axis, asked for v0
C14_Witness ==
    /\ pc = "isPointInsideTriangle"
    /\ Area2D(V[1], V[2], V[3], axis) = 0
    /\ Normal(V) # << 0, 0, 0 >>
    /\ point = V[1]
    /\ out.inside

\* the projection of q lies in the projection of T, border included: q is
\* on no edge's outer side
InProjection(T, q, k) ==
    /\ Area2D(q, T[2], T[3], k) * Area2D(T[1], T[2], T[3], k) >= 0
    /\ Area2D(T[1], q, T[3], k) * Area2D(T[1], T[2], T[3], k) >= 0
    /\ Area2D(T[1], T[2], q, k) * Area2D(T[1], T[2], T[3], k) >= 0

Permutations3 ==
    { << 1, 2, 3 >>, << 1, 3, 2 >>, << 2, 1, 3 >>, << 2, 3, 1 >>, << 3, 1, 2 >>, << 3, 2, 1 >> }

\* C15: when the projection has nonzero area, isPointInsideTriangle returns
\* true exactly when the three barycentric coordinates of the projected
\* point all lie in [0, 1], so points on edges and vertices are inside, and
\* the result does not depend on the order or orientation of the vertices.
C15_Barycentric ==
    (pc = "isPointInsideTriangle" /\ Area2D(V[1], V[2], V[3], axis) # 0) =>
        /\ out.inside = InProjection(V, point, axis)
        /\ \A s \in Permutations3 :
               isPointInsideTriangle(V[s[1]], V[s[2]], V[s[3]], axis, Exact(point)) = out.inside

\* the ray's direction is parallel to the plane of V as the function sees
\* it: |direction . (edge01 x edge02)| <= 1e-30
ParallelToPlane ==
    FABS(DOT(ray[2], Normal(V))) <= (IF scale = TinyExponent THEN EPS_TINY ELSE 0)

NoHit == << -1, 1 >>

\* C16: rayTriangleIntersectionTime returns -1 whenever
\* |direction . (edge01 x edge02)| <= 1e-30, also when the ray lies in the
\* plane of the triangle and passes through the triangle.
C16_ParallelRay ==
    (pc = "rayTriangleIntersectionTime" /\ ParallelToPlane) => out.time = NoHit

\* a ray in the plane of a triangle of nonzero area that starts strictly
\* inside the triangle
C16_Witness ==
    /\ pc = "rayTriangleIntersectionTime"
    /\ ~Degenerate(V)
    /\ DOT(ray[2], Normal(V)) = 0
    /\ DOT(SUB(ray[1], V[1]), Normal(V)) = 0
    /\ StrictlyInside(V, ray[1])
    /\ out.time = NoHit

\* the ray's origin is a point of the triangle V of nonzero area
OriginOnTriangle ==
    /\ ~Degenerate(V)
    /\ OnPlane(V, Exact(ray[1]))
    /\ InsideOrOn(V, Exact(ray[1]))

\* where the line of the ray meets the plane of V, the barycentric
\* coordinates b1, b2 and the ray parameter t are these numbers divided
\* by direction . normal
B1Numerator == DOT(ray[2], CROSS(SUB(ray[1], V[1]), SUB(V[3], V[1])))

B2Numerator == DOT(ray[2], CROSS(SUB(V[2], V[1]), SUB(ray[1], V[1])))

TNumerator == -DOT(SUB(ray[1], V[1]), Normal(V))

\* the line meets the plane in one point with b1 < 0, b2 < 0, b1 + b2 > 1
\* or t < 0
MeetsOutside ==
    /\ DOT(ray[2], Normal(V)) # 0
    /\ \/ B1Numerator * DOT(ray[2], Normal(V)) < 0
       \/ B2Numerator * DOT(ray[2], Normal(V)) < 0
       \/ (B1Numerator + B2Numerator - DOT(ray[2], Normal(V))) * DOT(ray[2], Normal(V)) > 0
       \/ TNumerator * DOT(ray[2], Normal(V)) < 0

\* every returned value is -1 or a time >= 0, and -1 when the line meets
\* the plane outside the triangle or behind the origin
TimeOrSentinel ==
    /\ out.time = NoHit \/ (out.time[2] > 0 /\ out.time[1] >= 0)
    /\ MeetsOutside => out.time = NoHit

\* C17 as stated: every returned value is -1 or a time t >= 0; -1 whenever
\* the line of the ray meets the plane at b1 < 0, b2 < 0, b1 + b2 > 1 or at
\* a negative ray parameter, for front-facing and back-facing triangles
\* alike; a ray whose origin lies on the triangle returns 0.
C17_OriginOnTriangle ==
    pc = "rayTriangleIntersectionTime" =>
        /\ TimeOrSentinel
        /\ OriginOnTriangle => out.time = << 0, 1 >>

\* C17, amended: every returned value is -1 or a time t >= 0; -1 whenever
\* the line of the ray meets the plane at b1 < 0, b2 < 0, b1 + b2 > 1 or at
\* a negative ray parameter, for front-facing and back-facing triangles
\* alike; a ray whose origin lies on the triangle and whose direction is
\* not parallel to the plane of the triangle
\* (|direction . (edge01 x edge02)| > 1e-30) returns 0.
C17_OriginOnTriangleNotParallel ==
    pc = "rayTriangleIntersectionTime" =>
        /\ TimeOrSentinel
        /\ (OriginOnTriangle /\ ~ParallelToPlane) => out.time = << 0, 1 >>

\* a ray that starts on a back-facing triangle and leaves its plane
C17_Witness ==
    /\ pc = "rayTriangleIntersectionTime"
    /\ OriginOnTriangle
    /\ ~ParallelToPlane
    /\ DOT(ray[2], Normal(V)) < 0
    /\ out.time = << 0, 1 >>

\* the axes (C index) in which the normal of T is largest in absolute value
DominantAxes(T) ==
    { a \in 0 .. 2 : \A b \in 0 .. 2 : FABS(Normal(T)[a + 1]) >= FABS(Normal(T)[b + 1]) }

\* the number a is n / 2^k: a Real holds it exactly
IsBinaryFraction(a) == \E k \in 0 .. 8 : a[2] = Pow2(k)

\* origin + t * direction for the returned time t
HitPoint == [ k \in 1 .. 3 |-> AddInt(ray[1][k], MulInt(ray[2][k], out.time)) ]

\* C18: whenever rayTriangleIntersectionTime(ray, v0, v1 - v0, v2 - v0)
\* returns a time t >= 0 for a triangle of nonzero area, the hit point
\* origin + t * direction satisfies isPointInsideTriangle(v0, v1, v2, a, .)
\* for the dominant axis a of the normal of the triangle.
\* It is evaluated at the hits whose time is a binary fraction: there the
\* quotient QdN / DdN and the hit point are computed without rounding.
C18_HitPointInside ==
    (/\ pc = "rayTriangleIntersectionTime"
     /\ out.time # NoHit
     /\ ~Degenerate(V)
     /\ IsBinaryFraction(out.time)) =>
        \A a \in DominantAxes(V) : isPointInsideTriangle(V[1], V[2], V[3], a, HitPoint)

\* what the call of thread t returns and writes when it runs alone
Alone(t) ==
    IF th.op[t] = "tri_tri_intersect"
    THEN [ NoResult EXCEPT !.ret = tri_tri_intersect(First(t)[1], First(t)[2], First(t)[3],
                                                      Second(t)[1], Second(t)[2], Second(t)[3]).ret ]
    ELSE IF th.op[t] = "NoDivTriTriIsect"
    THEN [ NoResult EXCEPT !.ret = NoDivTriTriIsect(First(t)[1], First(t)[2], First(t)[3],
                                                     Second(t)[1], Second(t)[2], Second(t)[3]).ret ]
    ELSE IF th.op[t] = "tri_tri_intersect_with_isectline"
    THEN [ f \in { "ret", "coplanar", "isectpt1", "isectpt2" } |->
               tri_tri_intersect_with_isectline(First(t)[1], First(t)[2], First(t)[3],
                   Second(t)[1], Second(t)[2], Second(t)[3], 0, Unset, Unset)[f] ]
         @@ NoResult
    ELSE IF th.op[t] = "closestPointOnTrianglePerimeter"
    THEN [ f \in { "pt", "edgeIndex" } |->
               closestPointOnTrianglePerimeter(First(t), UnitDirections(First(t)),
                   EdgeLengths(First(t)[1], First(t)[2], First(t)[3]), point)[f] ]
         @@ NoResult
    ELSE IF th.op[t] = "isPointInsideTriangle"
    THEN [ NoResult EXCEPT !.inside = isPointInsideTriangle(First(t)[1], First(t)[2], First(t)[3],
                                                             axis, Exact(point)) ]
    ELSE [ NoResult EXCEPT !.time = rayTriangleIntersectionTime(ray, First(t)[1],
                                        SUB(First(t)[2], First(t)[1]), SUB(First(t)[3], First(t)[1])) ]

\* C19: calls of the kernel operations that run concurrently, in any
\* interleaving and each with output parameters of its own, read no shared
\* mutable state and never modify their inputs: every call returns what it
\* returns when it runs alone.
C19_SameAsAlone ==
    /\ [](\A t \in Threads : Returned(t) => th.res[t] = Alone(t))
    /\ [][UNCHANGED << V, U, point, ray, axis, scale >>]_vars

\* one thread has returned from a call of one function while the other is
\* inside a call of another function on the other triangle
C19_Witness ==
    /\ pc = "threads"
    /\ Returned(1)
    /\ th.at[2] \in 1 .. 3
    /\ th.op[1] # th.op[2]
    /\ th.arg[1] # th.arg[2]
    /\ th.res[1] # NoResult

----------------------------------------------------------------------------
(* The three overlap tests on the same inputs.                             *)

InitKernel == InitIsectLine

NextKernel ==
    \/ Call_tri_tri_intersect
    \/ Call_NoDivTriTriIsect
    \/ Call_tri_tri_intersect_with_isectline

SpecKernel == InitKernel /\ [][NextKernel]_vars

\* the signed distance of T[k] to the plane of S as the kernel has it after
\* `if (fabs(d) < EPSILON) d = 0`
SnappedSide(S, T, k) == EpsilonTest(Side(S, T, k))

\* the three snapped distances are non-zero and of one sign
StrictlyOnOneSide(S, T) ==
    \/ \A k \in 1 .. 3 : SnappedSide(S, T, k) > 0
    \/ \A k \in 1 .. 3 : SnappedSide(S, T, k) < 0

\* the three snapped distances are zero
SnappedIntoPlane(S, T) == \A k \in 1 .. 3 : SnappedSide(S, T, k) = 0

Kernels == { "tri_tri_intersect", "NoDivTriTriIsect", "tri_tri_intersect_with_isectline" }

\* C25: in each of the three overlap tests, when the snapped distances of
\* U's vertices to V's plane, or of V's vertices to U's plane, are all
\* non-zero and of one sign, the call returns 0 through one of the two
\* same-side returns: no interval is computed and no quotient evaluated.
C25_SameSideRejects ==
    (pc \in Kernels /\ (StrictlyOnOneSide(V, U) \/ StrictlyOnOneSide(U, V)))
    => (ret = 0 /\ path \in { "reject_u", "reject_v" } /\ ~divzero)

\* U straddles or touches V's plane, V lies strictly below U's plane: the
\* second same-side test rejects, here in the segment-reconstructing test
C25_Witness ==
    /\ pc = "tri_tri_intersect_with_isectline"
    /\ ~Degenerate(V) /\ ~Degenerate(U)
    /\ ~StrictlyOnOneSide(V, U)
    /\ \A k \in 1 .. 3 : SnappedSide(U, V, k) < 0
    /\ path = "reject_v"
    /\ ret = 0

\* C26 (as claimed): whenever the three distances of U0, U1, U2 to V's plane
\* are all zero after the epsilon snap, tri_tri_intersect returns exactly
\* coplanar_tri_tri(N1, V0, V1, V2, U0, U1, U2), N1 the normal of V.
C26_CoplanarDelegation ==
    (pc = "tri_tri_intersect" /\ SnappedIntoPlane(V, U))
    => ret = coplanar_tri_tri(Normal(V), V[1], V[2], V[3], U[1], U[2], U[3])

\* C26: whenever the three distances of U0, U1, U2 to V's plane are all zero
\* after the epsilon snap and the vertices of V are not rejected by the
\* second same-side test (their snapped distances to U's plane are not all
\* non-zero and of one sign), tri_tri_intersect returns exactly
\* coplanar_tri_tri(N1, V0, V1, V2, U0, U1, U2), N1 the normal of V.
C26_CoplanarDelegationUnlessRejected ==
    (pc = "tri_tri_intersect" /\ SnappedIntoPlane(V, U) /\ ~StrictlyOnOneSide(U, V))
    => /\ path = "coplanar"
       /\ ret = coplanar_tri_tri(Normal(V), V[1], V[2], V[3], U[1], U[2], U[3])

\* the snap has acted on U's distances only: V gets an interval from the
\* first COMPUTE_INTERVALS and the second one delegates
C26_Witness ==
    /\ pc = "tri_tri_intersect"
    /\ ~Degenerate(V) /\ ~Degenerate(U)
    /\ SnappedIntoPlane(V, U)
    /\ \E k \in 1 .. 3 : Side(V, U, k) # 0
    /\ ~SnappedIntoPlane(U, V)
    /\ path = "coplanar"

----------------------------------------------------------------------------
(* The end points of the segment and the order of the interval bounds.     *)

\* the axis on which the two triangles are projected
ProjectionIndex(S, T) == LargestComponent(CROSS(Normal(S), Normal(T)))

\* the interval of triangle S on the axis `index` with its two recorded
\* points, from the distances p of S's vertices to the other plane
RecordedInterval(S, p, index) ==
    compute_intervals_isectline(S[1], S[2], S[3], S[1][index], S[2][index], S[3][index],
                                p.d0, p.d1, p.d2, p.d0 * p.d1, p.d0 * p.d2)

IntervalOfV == RecordedInterval(V, PlaneDistances(U[1], U[2], U[3], V[1], V[2], V[3]),
                                ProjectionIndex(V, U))

IntervalOfU == RecordedInterval(U, PlaneDistances(V[1], V[2], V[3], U[1], U[2], U[3]),
                                ProjectionIndex(V, U))

\* the pair was exchanged by the sort
Swapped(c) == Less(c.isect1, c.isect0)

\* a bound of an interval: the scalar s together with the point recorded for it
LowerEnd(c) ==
    IF Swapped(c) THEN [ s |-> c.isect1, p |-> c.isectpoint1 ]
                  ELSE [ s |-> c.isect0, p |-> c.isectpoint0 ]

UpperEnd(c) ==
    IF Swapped(c) THEN [ s |-> c.isect0, p |-> c.isectpoint0 ]
                  ELSE [ s |-> c.isect1, p |-> c.isectpoint1 ]

\* the recorded points of the largest of the bounds B (of each of them when
\* they are equal), and of the smallest
PointsOfLargest(B) == { x.p : x \in { y \in B : \A z \in B : ~Less(y.s, z.s) } }

PointsOfSmallest(B) == { x.p : x \in { y \in B : \A z \in B : ~Less(z.s, y.s) } }

\* C27: when tri_tri_intersect_with_isectline returns 1 with coplanar = 0,
\* isectpt1 is the point recorded for the larger of the two lower interval
\* bounds and isectpt2 the point recorded for the smaller of the two upper
\* bounds, each recorded point following its scalar through the sort.
C27_InnermostEndpoints ==
    (pc = "tri_tri_intersect_with_isectline" /\ ret = 1 /\ coplanar = 0)
    => /\ isectpt1 \in PointsOfLargest({ LowerEnd(IntervalOfV), LowerEnd(IntervalOfU) })
       /\ isectpt2 \in PointsOfSmallest({ UpperEnd(IntervalOfV), UpperEnd(IntervalOfU) })

\* two proper intervals that overlap in a proper segment, the pair of V
\* exchanged by the sort and the pair of U not
C27_Witness ==
    /\ pc = "tri_tri_intersect_with_isectline" /\ ret = 1 /\ coplanar = 0
    /\ ~Degenerate(V) /\ ~Degenerate(U)
    /\ ~divzero
    /\ Swapped(IntervalOfV) /\ Less(IntervalOfU.isect0, IntervalOfU.isect1)
    /\ Less(LowerEnd(IntervalOfU).s, LowerEnd(IntervalOfV).s)
    /\ Less(UpperEnd(IntervalOfU).s, UpperEnd(IntervalOfV).s)
    /\ isectpt1 # isectpt2

\* C28 (as claimed): for every pair of triangles, the pairs with only one of
\* the two distance triples snapped to all-zero included,
\* tri_tri_intersect_with_isectline returns what tri_tri_intersect returns.
C28_SameBoolean ==
    pc = "tri_tri_intersect_with_isectline" =>
        ret = tri_tri_intersect(V[1], V[2], V[3], U[1], U[2], U[3]).ret

----------------------------------------------------------------------------
(* The denominators of the interval computations.                          *)

\* the two distance triples of the call: U against V's plane and V against
\* U's plane, after the epsilon snap
DistanceTriples ==
    { PlaneDistances(V[1], V[2], V[3], U[1], U[2], U[3]),
      PlaneDistances(U[1], U[2], U[3], V[1], V[2], V[3]) }

\* the branch COMPUTE_INTERVALS selects for the triple p divides by zero
ZeroDenominator(p) ==
    COMPUTE_INTERVALS(0, 1, 2, p.d0, p.d1, p.d2, p.d0 * p.d1, p.d0 * p.d2).dz

\* the same for compute_intervals_isectline and isect2
ZeroDenominatorIsectLine(p) ==
    compute_intervals_isectline(<< 0, 0, 0 >>, << 1, 0, 0 >>, << 0, 1, 0 >>, 0, 1, 2,
                                p.d0, p.d1, p.d2, p.d0 * p.d1, p.d0 * p.d2).dz

\* X0 * X1 (x0*x1 or y0*y1 in NoDivTriTriIsect) of the branch
\* NEWCOMPUTE_INTERVALS selects is zero
ZeroProduct(n) == ~n.cop /\ n.X0 * n.X1 = 0

ZeroProductNoDiv(p) ==
    ZeroProduct(NEWCOMPUTE_INTERVALS(0, 1, 2, p.d0, p.d1, p.d2, p.d0 * p.d1, p.d0 * p.d2))

\* C29: in a call that gets past the two same-side rejections, whichever
\* branch of COMPUTE_INTERVALS, NEWCOMPUTE_INTERVALS or
\* compute_intervals_isectline a distance triple selects, both denominators
\* D0 - D1 and D0 - D2 of the selected vertex order are non-zero: no quotient
\* has denominator 0 and the products x0*x1, y0*y1 are non-zero.
C29_NoZeroDenominator ==
    (pc \in Kernels /\ path \in { "coplanar", "interval" })
    => /\ ~divzero
       /\ \A p \in DistanceTriples :
              ~ZeroDenominator(p) /\ ~ZeroDenominatorIsectLine(p) /\ ~ZeroProductNoDiv(p)

\* a vertex of U on V's plane and the other two on opposite sides, two
\* vertices of V on U's plane: the branches that test D0 # 0, D1 # 0, D2 # 0
C29_Witness ==
    /\ pc = "NoDivTriTriIsect" /\ path = "interval"
    /\ ~Degenerate(V) /\ ~Degenerate(U)
    /\ \E i \in 1 .. 3 :
          /\ SnappedSide(V, U, i) = 0
          /\ \A j, k \in (1 .. 3) \ { i } : j # k => SnappedSide(V, U, j) * SnappedSide(V, U, k) < 0
    /\ Cardinality({ k \in 1 .. 3 : SnappedSide(U, V, k) = 0 }) = 2

----------------------------------------------------------------------------
(* SortedArray<T, Compare>: SortedArray.hpp (src/unnamed/part_001).        *)
(*                                                                         *)
(* An element is a pair << key, tag >> and the comparator is "less than"   *)
(* on the key, so that distinct elements can be equivalent (neither is     *)
(* less than the other).  C index i is TLA+ index i + 1.                   *)

MaxKey == 2

MaxSize == 4

Tags == { 0, 1 }

Elements == (0 .. MaxKey) \X Tags

\* Compare::operator(): line 30
compare(a, b) == a[1] < b[1]

\* neither element is less than the other
Equivalent(a, b) == ~compare(a, b) /\ ~compare(b, a)

\* size(), line 41
size(a) == Len(a)

\* the loop of lines 125-136 from the state (first, count)
RECURSIVE lowerBound_loop(_, _, _, _)
lowerBound_loop(a, t, first, count) ==
    IF count > 0
    THEN IF compare(a[first + (count \div 2) + 1], t)
         THEN lowerBound_loop(a, t, first + (count \div 2) + 1, count - ((count \div 2) + 1))
         ELSE lowerBound_loop(a, t, first, count \div 2)
    ELSE first

\* lines 121-139
lowerBound(a, t) == lowerBound_loop(a, t, 0, size(a))

\* the loop of lines 101-112 from the state (first, count)
RECURSIVE upperBound_loop(_, _, _, _)
upperBound_loop(a, t, first, count) ==
    IF count > 0
    THEN IF ~compare(t, a[first + (count \div 2) + 1])
         THEN upperBound_loop(a, t, first + (count \div 2) + 1, count - ((count \div 2) + 1))
         ELSE upperBound_loop(a, t, first, count \div 2)
    ELSE first

\* a variant that stops at the first element not less than t
upperBound_as_lowerBound(a, t) == lowerBound_loop(a, t, 0, size(a))

\* lines 97-115
upperBound(a, t) == upperBound_loop(a, t, 0, size(a))

\* line 90, lb being lowerBound(t)
find_at(a, t, lb) == IF lb < size(a) /\ ~compare(t, a[lb + 1]) THEN lb ELSE -1

\* lines 87-91
find(a, t) == find_at(a, t, lowerBound(a, t))

\* line 68
contains(a, t) == find(a, t) >= 0

\* values.insert(values.begin() + i, t)
InsertAt(a, i, t) == SubSeq(a, 1, i) \o << t >> \o SubSeq(a, i + 1, Len(a))

\* values.erase(values.begin() + i) for a position of the array
RemoveAt(a, i) == SubSeq(a, 1, i) \o SubSeq(a, i + 2, Len(a))

\* what an operation leaves: the array, the returned intx (0 for a void
\* function) and whether it went outside the array
Outcome(a, r, f) == [ values |-> a, ret |-> r, fault |-> f ]

\* a variant that inserts at the end
insert_back(a, t) == Outcome(Append(a, t), Len(a), FALSE)

\* lines 146-159
insert(a, t) ==
    IF a = << >> THEN Outcome(<< t >>, 0, FALSE)
    ELSE Outcome(InsertAt(a, upperBound(a, t), t), upperBound(a, t), FALSE)

\* a variant without the containment test
insertUnique_untested(a, t) == insert(a, t)

\* lines 168-174
insertUnique(a, t) == IF contains(a, t) THEN Outcome(a, -1, FALSE) ELSE insert(a, t)

\* erase(intx i), lines 177-180: the outcomes of
\* values.erase(values.begin() + (size_t)i).  For i outside [0, size) the
\* iterator is not one of the array and the behaviour is undefined: with
\* i = -1 the elements are moved one place down, over the memory in front of
\* the buffer, and the size is decremented, or the program is stopped with
\* the array as it was.
erase_index(a, i) ==
    IF i >= 0 /\ i < size(a) THEN { Outcome(RemoveAt(a, i), 0, FALSE) }
    ELSE { Outcome(a, 0, TRUE) } \cup
         (IF a = << >> THEN { } ELSE { Outcome(Tail(a), 0, TRUE) })

\* erase(T const & t), lines 183-186
erase(a, t) == erase_index(a, find(a, t))

\* lines 189-192
clear(a) == Outcome(<< >>, 0, FALSE)

\* what the caller sees when the operation `name` with argument t has
\* returned r; r.ret is looked at only when the operation returns an intx
Return_SortedArray(name, t, r) ==
    /\ pc' = name
    /\ query' = t
    /\ values' = r.values
    /\ position' = r.ret
    /\ fault' = r.fault
    /\ UNCHANGED << scale, V, U, ret, coplanar, isectpt1, isectpt2, divzero, path >>
    /\ UNCHANGED others
    /\ UNCHANGED mesh

\* a program that has gone outside the array is not followed any further
Call_insert ==
    /\ ~fault
    /\ size(values) < MaxSize
    /\ \E t \in Elements : Return_SortedArray("insert", t, insert(values, t))

Call_insertUnique ==
    /\ ~fault
    /\ size(values) < MaxSize
    /\ \E t \in Elements : Return_SortedArray("insertUnique", t, insertUnique(values, t))

\* erase(intx) with a position of the array
Call_erase_index ==
    /\ ~fault
    /\ \E i \in 0 .. size(values) - 1 :
          \E r \in erase_index(values, i) : Return_SortedArray("erase(intx)", i, r)

\* erase(T const &) with any value
Call_erase ==
    /\ ~fault
    /\ \E t \in Elements :
          \E r \in erase(values, t) : Return_SortedArray("erase", t, r)

Call_clear ==
    /\ ~fault
    /\ Return_SortedArray("clear", 0, clear(values))

Call_find ==
    /\ ~fault
    /\ \E t \in Elements :
          Return_SortedArray("find", t, Outcome(values, find(values, t), FALSE))

Call_lowerBound ==
    /\ ~fault
    /\ \E t \in Elements :
          Return_SortedArray("lowerBound", t, Outcome(values, lowerBound(values, t), FALSE))

Call_upperBound ==
    /\ ~fault
    /\ \E t \in Elements :
          Return_SortedArray("upperBound", t, Outcome(values, upperBound(values, t), FALSE))

\* no geometric call is made
NoKernel ==
    /\ Quiet
    /\ V = NoTriangle
    /\ U = NoTriangle
    /\ axis = 0
    /\ ray = << << 0, 0, 0 >>, << 0, 0, 0 >> >>
    /\ edge = NoEdge
    /\ point = << 0, 0, 0 >>

\* the array after construction (line 38) is empty
InitSortedArray == NoKernel

NextSortedArray ==
    \/ Call_insert
    \/ Call_insertUnique
    \/ Call_erase_index
    \/ Call_erase
    \/ Call_clear
    \/ Call_find
    \/ Call_lowerBound
    \/ Call_upperBound

SpecSortedArray == InitSortedArray /\ [][NextSortedArray]_vars

(* An array that is filled through insertUnique only.                      *)
NextUnique ==
    \/ Call_insertUnique
    \/ Call_erase_index
    \/ Call_erase
    \/ Call_clear
    \/ Call_find

SpecUnique == InitSortedArray /\ [][NextUnique]_vars

\* ascending order by the comparator
IsSorted(a) == \A i, j \in 1 .. Len(a) : i < j => ~compare(a[j], a[i])

\* C21: after any sequence of insert, insertUnique, erase of a position of
\* the array, erase of a present value and clear, the elements are in
\* ascending order: for all positions i < j, compare(values[j], values[i])
\* is false.  (fault is set by nothing but the erase of an absent value.)
C21_Sorted == ~fault => IsSorted(values)

\* an erase has left elements of different keys in the array
C21_Witness ==
    /\ pc \in { "erase", "erase(intx)" }
    /\ ~fault
    /\ size(values) = MaxSize - 1
    /\ \E i, j \in 1 .. Len(values) : i < j /\ compare(values[i], values[j])

\* the index of the first element that is not less than t (equal to or
\* greater than t), size() when there is none
FirstNotLess(a, t) ==
    CHOOSE i \in 0 .. Len(a) :
        /\ i = Len(a) \/ ~compare(a[i + 1], t)
        /\ \A j \in 1 .. i : compare(a[j], t)

\* the index of the first element strictly greater than t, size() when
\* there is none
FirstGreater(a, t) ==
    CHOOSE i \in 0 .. Len(a) :
        /\ i = Len(a) \/ compare(t, a[i + 1])
        /\ \A j \in 1 .. i : ~compare(t, a[j])

\* an element equivalent to t is in the array
Present(a, t) == \E i \in 1 .. Len(a) : Equivalent(a[i], t)

\* C22: lowerBound(t) returns the index of the first element equal to or
\* greater than t, upperBound(t) the index of the first element strictly
\* greater than t, each size() when there is no such element, and find(t)
\* returns the index of an element equivalent to t when one is present and
\* a negative value otherwise.
C22_Bounds ==
    /\ pc = "lowerBound" => position = FirstNotLess(values, query)
    /\ pc = "upperBound" => position = FirstGreater(values, query)
    /\ pc = "find" =>
          IF Present(values, query)
          THEN position \in 0 .. size(values) - 1 /\ Equivalent(values[position + 1], query)
          ELSE position < 0

\* upperBound has skipped the elements equivalent to the query, which stand
\* after a smaller and before a greater element
C22_Witness ==
    /\ pc = "upperBound"
    /\ 0 < FirstNotLess(values, query)
    /\ FirstNotLess(values, query) < position
    /\ position < size(values)

\* no two elements of the array are equivalent
NoTwoEquivalent(a) == \A i, j \in 1 .. Len(a) : i # j => ~Equivalent(a[i], a[j])

\* what a step of insertUnique(t) on the array a has to leave: b is the
\* array and r the returned value
InsertedOnce(a, t, b, r) ==
    IF Present(a, t)
    THEN r < 0 /\ b = a
    ELSE /\ r \in 0 .. Len(a)
         /\ b = InsertAt(a, r, t)
         /\ b[r + 1] = t

\* C23: insertUnique(t) returns a negative value and leaves the array
\* unchanged when an element equivalent to t is present, and otherwise
\* inserts t and returns the index at which t now stands; an array filled
\* only through insertUnique never holds two equivalent elements.
C23_InsertUnique ==
    /\ [][pc' = "insertUnique" => InsertedOnce(values, query', values', position')]_vars
    /\ [](NoTwoEquivalent(values))

\* an element was refused because an equivalent, different one is present
C23_Witness ==
    /\ pc = "insertUnique"
    /\ position < 0
    /\ size(values) > 1
    /\ \E i \in 1 .. Len(values) : Equivalent(values[i], query) /\ values[i] # query

\* the array b is the array a without one of its elements equivalent to t
OneOccurrenceRemoved(a, t, b) ==
    \E i \in 1 .. Len(a) : Equivalent(a[i], t) /\ b = RemoveAt(a, i - 1)

\* C24 (as claimed): erase(t) removes one occurrence of t when t is present,
\* and when t is not present it leaves the array unchanged and accesses no
\* position outside the array.
C24_EraseValue ==
    [][pc' = "erase" =>
          IF Present(values, query')
          THEN OneOccurrenceRemoved(values, query', values') /\ ~fault'
          ELSE values' = values /\ ~fault']_vars

----------------------------------------------------------------------------
(* DisplayMesh: DisplayMesh.cpp (src/unnamed/part_004).                    *)
(*                                                                         *)
(* Of the mesh the number of vertices, the triangle index array `tris`     *)
(* (three vertex indices per triangle) and `tri_source_face_indices` are   *)
(* kept; `thrown` tells whether the last call left through the exception   *)
(* of a failed alwaysAssertM.  The vertex data, the quads and the GPU      *)
(* buffers take no part in the triangle bookkeeping.                       *)

MaxVertices == 2

MaxTriangles == 3

MaxFace == 1

\* the mesh m with the triangle arrays T and F and the exception flag x
WithTriangles(m, T, F, x) ==
    [ vertices |-> m.vertices, tris |-> T, tri_source_face_indices |-> F, thrown |-> x ]

\* numTriangles(): tris.size() / 3 as in line 231
numTriangles(m) == Len(m.tris) \div 3

\* lines 189-217 for a vertex without source index, normal, colour and
\* texture coordinates
addVertex(m) ==
    [ vertices |-> m.vertices + 1, tris |-> m.tris,
      tri_source_face_indices |-> m.tri_source_face_indices, thrown |-> FALSE ]

\* the condition of the alwaysAssertM of lines 227-229
AllOrNoSourceIndices(m, source_face_index) ==
    \/ source_face_index >= 0 /\ 3 * Len(m.tri_source_face_indices) = Len(m.tris)
    \/ source_face_index < 0 /\ m.tri_source_face_indices = << >>

\* lines 219-243
addTriangle(m, vi0, vi1, vi2, source_face_index) ==
    IF ~AllOrNoSourceIndices(m, source_face_index)
    THEN WithTriangles(m, m.tris, m.tri_source_face_indices, TRUE)
    ELSE WithTriangles(m, m.tris \o << vi0, vi1, vi2 >>,
                       IF source_face_index >= 0
                       THEN Append(m.tri_source_face_indices, source_face_index)
                       ELSE m.tri_source_face_indices,
                       FALSE)

\* lines 339-348: tris.erase(ii, ii + 3 * num_triangles) with
\* ii = tris.begin() + 3 * begin
removeTriangles(m, begin, num_triangles) ==
    WithTriangles(m, SubSeq(m.tris, 1, 3 * begin)
                        \o SubSeq(m.tris, 3 * (begin + num_triangles) + 1, Len(m.tris)),
                  m.tri_source_face_indices, FALSE)

\* lines 328-337: tris.erase(ii, ii + 3) with ii = tris.begin() + 3 * tri_index
removeTriangle(m, tri_index) ==
    WithTriangles(m, SubSeq(m.tris, 1, 3 * tri_index)
                        \o SubSeq(m.tris, 3 * tri_index + 4, Len(m.tris)),
                  m.tri_source_face_indices, FALSE)

\* lines 69-91
DisplayMesh_clear(m) == NoMesh

Return_DisplayMesh(name, m) ==
    /\ pc' = name
    /\ mesh' = m
    /\ UNCHANGED << scale, V, U, ret, coplanar, isectpt1, isectpt2, divzero, path >>
    /\ UNCHANGED others
    /\ UNCHANGED << values, query, position, fault >>

Call_addVertex ==
    /\ mesh.vertices < MaxVertices
    /\ Return_DisplayMesh("addVertex", addVertex(mesh))

\* addTriangle on vertices of the mesh, with a source face index
Call_addTriangle ==
    /\ numTriangles(mesh) < MaxTriangles
    /\ \E vi0, vi1, vi2 \in 0 .. mesh.vertices - 1, source_face_index \in 0 .. MaxFace :
          Return_DisplayMesh("addTriangle", addTriangle(mesh, vi0, vi1, vi2, source_face_index))

Call_removeTriangle ==
    \E tri_index \in 0 .. numTriangles(mesh) - 1 :
        Return_DisplayMesh("removeTriangle", removeTriangle(mesh, tri_index))

Call_removeTriangles ==
    \E begin \in 0 .. numTriangles(mesh) - 1 :
        \E num_triangles \in 1 .. numTriangles(mesh) - begin :
            Return_DisplayMesh("removeTriangles", removeTriangles(mesh, begin, num_triangles))

Call_DisplayMesh_clear == Return_DisplayMesh("DisplayMesh::clear", DisplayMesh_clear(mesh))

\* the mesh after construction (lines 22-41) has no vertices and no faces
InitDisplayMesh == NoKernel

NextDisplayMesh ==
    \/ Call_addVertex
    \/ Call_addTriangle
    \/ Call_removeTriangle
    \/ Call_removeTriangles
    \/ Call_DisplayMesh_clear

SpecDisplayMesh == InitDisplayMesh /\ [][NextDisplayMesh]_vars

\* C30 (as claimed): in a mesh whose triangles are all added with a source
\* face index, after any sequence of addTriangle, removeTriangle and
\* removeTriangles calls 3 * tri_source_face_indices.size() equals
\* tris.size(), and no addTriangle fails its "all or no triangle face
\* source indices" assertion.
C30_SourceIndicesInStep ==
    /\ 3 * Len(mesh.tri_source_face_indices) = Len(mesh.tris)
    /\ ~mesh.thrown

====
